---- MODULE Spec2Model ----
(***************************************************************************)
(* Workflow execution engine of backend/executor.js, driven by the /run    *)
(* handler of the server (backend/planner.js, server part).                *)
(*                                                                         *)
(* JavaScript values are tagged records, so that values of different       *)
(* JavaScript types can be stored in one collection and compared.          *)
(* A dotted path string is kept as the list of its '.'-separated parts     *)
(* (what expr.split(".") yields); a JSON-path string as its list of steps. *)
(***************************************************************************)
EXTENDS Integers, Sequences, FiniteSets, TLC

(* ------------------------------ bounds ------------------------------- *)
MaxRetry == 1
MaxRows == 2
MaxFanMax == 2
MaxList == 3
Precision == 3

(* ------------------------- JavaScript values ------------------------- *)
Undef == [t |-> "undefined"]
Null == [t |-> "null"]
False == [t |-> "bool", b |-> FALSE]
Num(n) == [t |-> "num", n |-> n]
\* a number with one decimal digit, tenths / 10
Dec(tenths) == [t |-> "dec", tenths |-> tenths]
Str(s) == [t |-> "str", s |-> s]
Arr(s) == [t |-> "arr", a |-> s]
Obj(f) == [t |-> "obj", o |-> f]
DotPath(parts) == [t |-> "path", p |-> parts]
JsonPathExpr(steps) == [t |-> "jsonpath", jp |-> steps]
Key(name) == [k |-> "key", name |-> name]
Idx(n) == [k |-> "idx", i |-> n]
Wild == [k |-> "wild"]
EmptyObj == Obj(<<>>)

IsNullish(v) == v.t \in {"undefined", "null"}
IsArray(v) == v.t = "arr"
isObj(v) == v.t = "obj"

\* cur[p] of a non-nullish value
Prop(v, p) ==
    IF v.t = "obj" /\ p \in DOMAIN v.o THEN v.o[p] ELSE Undef

\* a ?? b
Coalesce(a, b) == IF IsNullish(a) THEN b ELSE a

\* a || b on the values the engine applies it to
OrElse(a, b) ==
    IF IsNullish(a) \/ (a.t = "num" /\ a.n = 0) \/ (a.t = "str" /\ a.s = "")
    THEN b ELSE a

Min(a, b) == IF a <= b THEN a ELSE b
Max(a, b) == IF a >= b THEN a ELSE b

RECURSIVE SetToSeq(_)
SetToSeq(S) ==
    IF S = {} THEN <<>>
    ELSE LET x == CHOOSE y \in S : TRUE IN <<x>> \o SetToSeq(S \ {x})

RECURSIVE Flatten(_)
Flatten(ss) == IF ss = <<>> THEN <<>> ELSE Head(ss) \o Flatten(Tail(ss))

(* ---------------------------- path resolver -------------------------- *)
RECURSIVE JPMatches(_, _)
JPMatches(v, steps) ==
    IF steps = <<>> THEN <<v>>
    ELSE LET s == Head(steps)
             rest == Tail(steps)
         IN CASE s.k = "key" ->
                   IF v.t = "obj" /\ s.name \in DOMAIN v.o
                   THEN JPMatches(v.o[s.name], rest) ELSE <<>>
              [] s.k = "idx" ->
                   IF v.t = "arr" /\ s.i + 1 <= Len(v.a)
                   THEN JPMatches(v.a[s.i + 1], rest) ELSE <<>>
              [] s.k = "wild" ->
                   IF v.t = "arr"
                   THEN Flatten([j \in 1..Len(v.a) |-> JPMatches(v.a[j], rest)])
                   ELSE IF v.t = "obj"
                   THEN LET ks == SetToSeq(DOMAIN v.o)
                        IN Flatten([j \in 1..Len(ks) |-> JPMatches(v.o[ks[j]], rest)])
                   ELSE <<>>

\* JSONPath({path, json, wrap}) of jsonpath-plus
JSONPath(steps, json, wrap) ==
    LET m == JPMatches(json, steps)
        hasArrExpr == \E j \in 1..Len(steps) : steps[j].k = "wild"
    IN IF Len(m) = 0 THEN (IF wrap THEN Arr(<<>>) ELSE Undef)
       ELSE IF ~wrap /\ Len(m) = 1 /\ ~hasArrExpr THEN m[1]
       ELSE Arr(m)

RECURSIVE Walk(_, _)
Walk(cur, parts) ==
    IF parts = <<>> THEN cur
    ELSE IF IsNullish(cur) THEN Undef
    ELSE Walk(Prop(cur, Head(parts)), Tail(parts))

resolvePathLike(scope, expr) ==
    IF expr.t = "jsonpath" THEN JSONPath(expr.jp, scope, TRUE)
    ELSE IF expr.t = "path" THEN Walk(scope, expr.p)
    ELSE expr

\* a string that starts with "$." or "$[" and is no JSONPath expression
MalformedPath == [t |-> "badjsonpath"]

\* what a call JSONPath({path, json, wrap}) may do: without a document there
\* is no result; a well-formed path gives its matches; a malformed one is
\* thrown on, or matches nothing
Evaluations(expr, json, wrap) ==
    IF IsNullish(json) THEN {[threw |-> FALSE, value |-> Undef]}
    ELSE IF expr.t = "badjsonpath"
    THEN {[threw |-> TRUE, value |-> Undef],
          [threw |-> FALSE, value |-> IF wrap THEN Arr(<<>>) ELSE Undef]}
    ELSE {[threw |-> FALSE, value |-> JSONPath(expr.jp, json, wrap)]}

\* lines 21-33 with the outcome of the library call: a thrown error is caught
resolvePathLikeWith(scope, expr, evaluation) ==
    [threw |-> FALSE,
     value |-> IF expr.t \in {"jsonpath", "badjsonpath"}
               THEN (IF evaluation.threw THEN Undef ELSE evaluation.value)
               ELSE resolvePathLike(scope, expr)]

(* ---------------------------- row normalizer ------------------------- *)
\* mutant: an error thrown for one column leaves the function
applyMapWith_NoCatch(json, map, evaluation) ==
    IF ~isObj(map) THEN [threw |-> FALSE, value |-> json]
    ELSE [threw |-> \E k \in DOMAIN map.o : evaluation[k].threw,
          value |-> Obj([k \in DOMAIN map.o |->
                           IF evaluation[k].value.t = "undefined"
                           THEN Null ELSE evaluation[k].value])]

\* lines 74-86 with the outcome of the library call for every column
applyMapWith(json, map, evaluation) ==
    IF ~isObj(map) THEN [threw |-> FALSE, value |-> json]
    ELSE [threw |-> FALSE,
          value |-> Obj([k \in DOMAIN map.o |->
                           IF evaluation[k].threw THEN Null
                           ELSE IF evaluation[k].value.t = "undefined"
                           THEN Null ELSE evaluation[k].value])]

applyMap(json, map) ==
    IF ~isObj(map) THEN json
    ELSE Obj([k \in DOMAIN map.o |->
              LET result == JSONPath(map.o[k].jp, json, FALSE)
              IN IF result.t = "undefined" THEN Null ELSE result])

\* mutant: columns are padded to the longest one
asRows_Longest(input) ==
    IF IsArray(input) THEN input.a
    ELSE IF isObj(input) /\ \A k \in DOMAIN input.o : IsArray(input.o[k])
    THEN LET keys == DOMAIN input.o
         IN IF keys = {} THEN <<>>
            ELSE LET maxLen == CHOOSE n \in {Len(input.o[k].a) : k \in keys} :
                                 \A k \in keys : n >= Len(input.o[k].a)
                 IN [r \in 1..maxLen |->
                       Obj([k \in keys |-> IF r <= Len(input.o[k].a)
                                           THEN input.o[k].a[r] ELSE Undef])]
    ELSE <<>>

asRows(input) ==
    IF IsArray(input) THEN input.a
    ELSE IF isObj(input) /\ \A k \in DOMAIN input.o : IsArray(input.o[k])
    THEN LET keys == DOMAIN input.o
         IN IF keys = {} THEN <<>>
            ELSE LET minLen == CHOOSE n \in {Len(input.o[k].a) : k \in keys} :
                                 \A k \in keys : n <= Len(input.o[k].a)
                 IN [r \in 1..minLen |-> Obj([k \in keys |-> input.o[k].a[r]])]
    ELSE <<>>

(* ------------------------------ transforms --------------------------- *)
\* {...row}: the own fields of an object, nothing for any other value
Spread(row) == IF isObj(row) THEN row.o ELSE <<>>

t_join_on_index_FirstWins(left, rightArrays, rightKeys) ==
    LET leftRows == asRows(left)
        validRightArrays ==
            [j \in 1..Len(rightArrays) |->
                IF IsArray(rightArrays[j]) THEN rightArrays[j].a ELSE <<>>]
        used == {j \in 1..Len(validRightArrays) :
                    j <= Len(rightKeys) /\ rightKeys[j] # ""}
        first(key) == CHOOSE j \in used :
                        rightKeys[j] = key /\ \A h \in used : rightKeys[h] = key => h >= j
        extraKeys == {rightKeys[j] : j \in used}
    IN [r \in 1..Len(leftRows) |->
          LET row == Spread(leftRows[r])
          IN Obj([k \in DOMAIN row \cup extraKeys |->
                    IF k \in extraKeys
                    THEN (LET arr == validRightArrays[first(k)]
                          IN IF r <= Len(arr) THEN arr[r] ELSE Undef)
                    ELSE row[k]])]

t_join_on_index(left, rightArrays, rightKeys) ==
    LET leftRows == asRows(left)
        validRightArrays ==
            [j \in 1..Len(rightArrays) |->
                IF IsArray(rightArrays[j]) THEN rightArrays[j].a ELSE <<>>]
        used == {j \in 1..Len(validRightArrays) :
                    j <= Len(rightKeys) /\ rightKeys[j] # ""}
        \* a later right array overwrites an earlier one under the same key
        last(key) == CHOOSE j \in used :
                        rightKeys[j] = key /\ \A h \in used : rightKeys[h] = key => h <= j
        extraKeys == {rightKeys[j] : j \in used}
    IN [r \in 1..Len(leftRows) |->
          LET row == Spread(leftRows[r])
          IN Obj([k \in DOMAIN row \cup extraKeys |->
                    IF k \in extraKeys
                    THEN (LET arr == validRightArrays[last(k)]
                          IN IF r <= Len(arr) THEN arr[r] ELSE Undef)
                    ELSE row[k]])]

(* --------------------------- specification -------------------------- *)
\* Number(v): a number, or NaN. The strings of the model are not numerals, except
\* the empty string, which converts to 0
NaN == [t |-> "nan"]
Number(v) ==
    CASE v.t = "num" -> v
      [] v.t = "null" -> Num(0)
      [] v.t = "str" -> IF v.s = "" THEN Num(0) ELSE NaN
      [] v.t = "arr" -> IF v.a = <<>> THEN Num(0) ELSE NaN
      [] OTHER -> NaN

\* Number(row?.[key]) || 0
NumberOrZero(row, key) ==
    LET val == Number(IF IsNullish(row) THEN Undef ELSE Prop(row, key))
    IN IF val.t = "nan" THEN 0 ELSE val.n

Front(s) == SubSeq(s, 1, Len(s) - 1)

\* the comparator of t_top_n
compare(a, b, by, desc) ==
    LET valA == NumberOrZero(a, by)
        valB == NumberOrZero(b, by)
    IN IF desc THEN valB - valA ELSE valA - valB

\* Array.prototype.sort with that comparator: a stable sort
RECURSIVE Insert(_, _, _, _)
Insert(x, s, by, desc) ==
    IF s = <<>> THEN <<x>>
    ELSE IF compare(s[Len(s)], x, by, desc) <= 0 THEN Append(s, x)
    ELSE Append(Insert(x, Front(s), by, desc), s[Len(s)])

RECURSIVE sort(_, _, _)
sort(s, by, desc) ==
    IF s = <<>> THEN <<>>
    ELSE Insert(s[Len(s)], sort(Front(s), by, desc), by, desc)

\* Array.prototype.slice(0, n)
slice(s, n) ==
    IF n >= 0 THEN SubSeq(s, 1, Min(n, Len(s))) ELSE SubSeq(s, 1, Max(Len(s) + n, 0))

t_top_n_Ascending(arr, n, by, desc) ==
    LET rows == asRows(arr)
        s == sort(rows, by, ~desc)
    IN [result |-> slice(s, n), rows |-> rows]

\* t_top_n: what it returns, and the rows of its argument after the call
t_top_n(arr, n, by, desc) ==
    LET rows == asRows(arr)
        s == sort(rows, by, desc)
    IN [result |-> slice(s, n), rows |-> rows]

\* xs.map(Number).filter(n => !isNaN(n)), as the indices of xs that are kept
NumericIndices(xs) ==
    IF IsArray(xs)
    THEN SelectSeq([k \in 1..Len(xs.a) |-> k], LAMBDA k : Number(xs.a[k]).t # "nan")
    ELSE <<>>

\* whether a value counts as true in a condition
Truthy(v) ==
    CASE IsNullish(v) -> FALSE
      [] v.t = "str" -> v.s # ""
      [] v.t = "num" -> v.n # 0
      [] v.t = "dec" -> v.tenths # 0
      [] v.t = "nan" -> FALSE
      [] OTHER -> TRUE

\* String.prototype.toLowerCase on the strings of the model
toLowerCase(s) ==
    CASE s \in {"YES", "Yes"} -> "yes"
      [] s = "No" -> "no"
      [] OTHER -> s

\* String(val) as the quality heuristic applies it
StringOf(val) ==
    CASE val.t = "str" -> val.s
      [] val.t = "num" -> ToString(val.n)
      [] OTHER -> "[object]"

\* yes(v): String(v || "").toLowerCase() === "yes"
yes(v) == toLowerCase(StringOf(IF Truthy(v) THEN v ELSE Str(""))) = "yes"

\* f.<key> ?? "<key>"
FieldName(f, key) ==
    LET name == Prop(f, key) IN IF IsNullish(name) THEN key ELSE name.s

\* row?.[name]
Field(row, name) == IF IsNullish(row) THEN Undef ELSE Prop(row, name)

\* mutant: the flags are compared with "yes" as written
t_compute_osm_quality_CaseSensitive(arr, fields) ==
    LET rows == asRows(arr)
        f == IF Truthy(fields) THEN fields ELSE EmptyObj
    IN [r \in 1..Len(rows) |->
          LET row == rows[r]
              q0 == 35
              q1 == IF Truthy(Field(row, FieldName(f, "cuisine"))) THEN q0 + 6 ELSE q0
              q2 == IF Truthy(Field(row, FieldName(f, "opening_hours"))) THEN q1 + 4 ELSE q1
              q3 == IF StringOf(Coalesce(Field(row, FieldName(f, "outdoor_seating")), Str(""))) = "yes"
                    THEN q2 + 2 ELSE q2
              q4 == IF StringOf(Coalesce(Field(row, FieldName(f, "wheelchair")), Str(""))) = "yes"
                    THEN q3 + 2 ELSE q3
              q == IF q4 > 50 THEN 50 ELSE q4
          IN Obj([k \in DOMAIN Spread(row) \cup {"quality"} |->
                    IF k = "quality" THEN Dec(q) ELSE row.o[k]])]

\* t_compute_osm_quality, the quality counted in tenths
t_compute_osm_quality(arr, fields) ==
    LET rows == asRows(arr)
        f == IF Truthy(fields) THEN fields ELSE EmptyObj
    IN [r \in 1..Len(rows) |->
          LET row == rows[r]
              q0 == 35
              q1 == IF Truthy(Field(row, FieldName(f, "cuisine"))) THEN q0 + 6 ELSE q0
              q2 == IF Truthy(Field(row, FieldName(f, "opening_hours"))) THEN q1 + 4 ELSE q1
              q3 == IF yes(Field(row, FieldName(f, "outdoor_seating"))) THEN q2 + 2 ELSE q2
              q4 == IF yes(Field(row, FieldName(f, "wheelchair"))) THEN q3 + 2 ELSE q3
              q == IF q4 > 50 THEN 50 ELSE q4
          IN Obj([k \in DOMAIN Spread(row) \cup {"quality"} |->
                    IF k = "quality" THEN Dec(q) ELSE row.o[k]])]

(* JS numbers are binary floating point: every arithmetic operation returns the
   exact result rounded to the nearest number with Precision significant bits,
   ties to the even one (IEEE 754 has 53 bits). Numbers are kept as fractions
   num / den in lowest terms, den > 0. *)
RECURSIVE Gcd(_, _)
Gcd(a, b) == IF b = 0 THEN a ELSE Gcd(b, a % b)
Abs(a) == IF a < 0 THEN 0 - a ELSE a
Rat(a, b) ==
    LET g == Gcd(Abs(a), Abs(b))
        sgn == IF b < 0 THEN 0 - 1 ELSE 1
    IN [num |-> sgn * (a \div g), den |-> sgn * (b \div g)]
Zero == [num |-> 0, den |-> 1]

\* the exponent e with 2^(Precision-1) <= a / (b * 2^e) < 2^Precision, and that
\* quotient as a fraction
RECURSIVE Normalise(_, _, _)
Normalise(a, b, e) ==
    IF a >= (2 ^ Precision) * b THEN Normalise(a, 2 * b, e + 1)
    ELSE IF a < (2 ^ (Precision - 1)) * b THEN Normalise(2 * a, b, e - 1)
    ELSE [a |-> a, b |-> b, e |-> e]

Scaled(m, e) == IF e >= 0 THEN Rat(m * (2 ^ e), 1) ELSE Rat(m, 2 ^ (0 - e))

\* round to nearest, ties to even
Round(q) ==
    IF q.num = 0 THEN Zero
    ELSE LET nrm == Normalise(Abs(q.num), q.den, 0)
             f == nrm.a \div nrm.b
             rem == nrm.a % nrm.b
             m == IF 2 * rem > nrm.b \/ (2 * rem = nrm.b /\ f % 2 = 1) THEN f + 1 ELSE f
         IN Scaled(IF q.num < 0 THEN 0 - m ELSE m, nrm.e)

Add(x, y) == Round(Rat(x.num * y.den + y.num * x.den, x.den * y.den))
Sub(x, y) == Round(Rat(x.num * y.den - y.num * x.den, x.den * y.den))
Mul(x, y) == Round(Rat(x.num * y.num, x.den * y.den))
Div(x, y) == Round(Rat(x.num * y.den, x.den * y.num))

\* the exponent e with 4^(Precision-1) <= a / (b * 4^e) < 4^Precision
RECURSIVE NormaliseSquare(_, _, _)
NormaliseSquare(a, b, e) ==
    IF a >= (4 ^ Precision) * b THEN NormaliseSquare(a, 4 * b, e + 1)
    ELSE IF a < (4 ^ (Precision - 1)) * b THEN NormaliseSquare(4 * a, b, e - 1)
    ELSE [a |-> a, b |-> b, e |-> e]

\* Math.sqrt: the square root, correctly rounded
Sqrt(x) ==
    IF x.num = 0 THEN Zero
    ELSE LET nrm == NormaliseSquare(x.num, x.den, 0)
             f == CHOOSE m \in (2 ^ (Precision - 1))..(2 ^ Precision - 1) :
                    m * m * nrm.b <= nrm.a /\ nrm.a < (m + 1) * (m + 1) * nrm.b
             half == (2 * f + 1) * (2 * f + 1) * nrm.b
             m == IF 4 * nrm.a > half \/ (4 * nrm.a = half /\ f % 2 = 1) THEN f + 1 ELSE f
         IN Scaled(m, nrm.e)

\* the number an integer literal denotes
Float(n) == Round(Rat(n, 1))

\* t_correlation: X and Y are filtered separately, then paired by position;
\* pairs lists the indices of xs and ys each term of the sums is taken from
t_correlation(xs, ys) ==
    LET keptX == NumericIndices(xs)
        keptY == NumericIndices(ys)
        n == Min(Len(keptX), Len(keptY))
        X == [k \in 1..n |-> Float(Number(xs.a[keptX[k]]).n)]
        Y == [k \in 1..n |-> Float(Number(ys.a[keptY[k]]).n)]
        \* a.reduce((s, x) => s + x, 0)
        Sum(f) == LET RECURSIVE Acc(_)
                      Acc(k) == IF k = 0 THEN Zero ELSE Add(Acc(k - 1), f[k])
                  IN Acc(n)
        mean(a) == Div(Sum(a), Float(n))
        mx == mean(X)
        my == mean(Y)
        vx == [k \in 1..n |-> Sub(X[k], mx)]
        vy == [k \in 1..n |-> Sub(Y[k], my)]
        num == Sum([k \in 1..n |-> Mul(vx[k], vy[k])])
        dx == Sum([k \in 1..n |-> Mul(vx[k], vx[k])])
        dy == Sum([k \in 1..n |-> Mul(vy[k], vy[k])])
        den == Sqrt(Mul(dx, dy))
    IN IF n < 2 THEN [r |-> Zero, pairs |-> <<>>]
       \* den > 1e-6 ? num / den : 0
       ELSE [r |-> IF den.num >= den.den \/ den.num * 1000000 > den.den
                   THEN Div(num, den) ELSE Zero,
             pairs |-> [k \in 1..n |-> <<keptX[k], keptY[k]>>]]

\* optional fields: <<>> when absent, <<x>> when present
None == <<>>
Some(x) == <<x>>

Lit(s) == [t |-> "lit", lit |-> s]
Hole(expr) == [t |-> "hole", hole |-> expr]
\* the placeholder {{join_coords(latPath, lonPath)}}
JoinCoords(latPath, lonPath) == [t |-> "join_coords", lat |-> latPath, lon |-> lonPath]

HttpNode(id, retry, fallback, fanout, params, map) ==
    [id |-> id, type |-> "http", fn |-> "", args |-> <<>>, retry |-> retry,
     fallback |-> fallback, fanout |-> fanout, params |-> params, map |-> map]

TransformNode(id, fn, args) ==
    [id |-> id, type |-> "transform", fn |-> fn, args |-> args, retry |-> None,
     fallback |-> FALSE, fanout |-> None, params |-> <<>>, map |-> Undef]

Edge(from, to) == [from |-> from, to |-> to]

\* retry: absent, or {times, backoff_ms}
Retries == {None} \cup {Some([times |-> n, backoff_ms |-> 100]) : n \in 0..MaxRetry}

n1_overpass(retry) ==
    HttpNode("n1_overpass", retry, FALSE, None, <<>>,
             Obj([k \in {"lat"} |-> JsonPathExpr(<<Key("elements"), Wild, Key("lat")>>)]))

n2_eta(retry, fallback) ==
    HttpNode("n2_eta", retry, fallback, None, [sources |-> <<Lit("0")>>],
             Obj([k \in {"eta_seconds"} |->
                    JsonPathExpr(<<Key("durations"), Idx(0), Wild>>)]))

n3_weather(retry, max) ==
    HttpNode("n3_weather", retry, FALSE,
             Some([over |-> DotPath(<<"outputs", "n1_overpass">>), max |-> max,
                   mapping |-> [lat |-> "lat"]]),
             [latitude |-> <<Hole(DotPath(<<"lat">>))>>],
             Obj([k \in {"temp_c"} |->
                    JsonPathExpr(<<Key("current"), Key("temperature_2m")>>)]))

t1_join ==
    TransformNode("t1_join", "join_on_index",
        [left |-> DotPath(<<"outputs", "n1_overpass">>),
         rightArrays |-> Arr(<<DotPath(<<"outputs", "n2_eta", "eta_seconds">>),
                               DotPath(<<"outputs", "n3_weather", "temp_c">>)>>),
         rightKeys |-> <<"eta_seconds", "temp_c">>])

\* a transform whose fn names no transform of the engine
t_unknown ==
    TransformNode("t_unknown", "summarize",
        [from |-> DotPath(<<"outputs", "n1_overpass">>)])

\* a join whose rightArrays is one path string instead of a list of paths
t_badjoin ==
    TransformNode("t_badjoin", "join_on_index",
        [left |-> DotPath(<<"outputs", "n1_overpass">>),
         rightArrays |-> Str("outputs.n2_eta.eta_seconds"),
         rightKeys |-> <<"eta_seconds">>])

PlanEdges ==
    <<Edge("n1_overpass", "n2_eta"), Edge("n1_overpass", "n3_weather"),
      Edge("n1_overpass", "t1_join"), Edge("n2_eta", "t1_join"),
      Edge("n3_weather", "t1_join")>>

\* the planner's pipeline up to the join, one specification per retry policy,
\* fallback declaration and fan-out cap
plan(r1, r2, r3, fb, max) ==
    [nodes |-> <<n1_overpass(r1), n2_eta(r2, fb), n3_weather(r3, max), t1_join>>,
     nodesKind |-> "array",
     edges |-> PlanEdges,
     origin |-> Obj([k \in {"lat", "lon"} |-> Num(0)])]

Specs ==
    {plan(r, r, r, fb, max) : r \in Retries, fb \in BOOLEAN, max \in 0..MaxFanMax}

\* the pipeline with another transform in the place of the join
OddSpecs ==
    {[plan(None, None, None, FALSE, 1) EXCEPT !.nodes[4] = tnode] :
        tnode \in {t_unknown, t_badjoin}}

\* a ranking of the joined rows by ETA, under the planner's id or another one
t_top(id) ==
    TransformNode(id, "top_n",
        [from |-> DotPath(<<"outputs", "t1_join">>), n |-> Num(1), by |-> Str("eta_seconds")])

\* the pipeline followed by a ranking node
RankSpecs ==
    {[plan(None, None, None, FALSE, max) EXCEPT
        !.nodes = @ \o <<t_top(id)>>, !.edges = @ \o <<Edge("t1_join", id)>>] :
        id \in {"t3_top", "t_rank"}, max \in {0, 1}}

\* the planner's quality and correlation nodes
t_osm_quality ==
    TransformNode("t_osm_quality", "compute_osm_quality",
        [from |-> DotPath(<<"outputs", "t1_join">>),
         fields |-> Obj([tag \in {"cuisine", "opening_hours", "outdoor_seating",
                                  "wheelchair"} |-> Str(tag)])])
t4_corr ==
    TransformNode("t4_corr", "correlation",
        [xFrom |-> DotPath(<<"outputs", "t_osm_quality", "quality[*]">>),
         yFrom |-> DotPath(<<"outputs", "n2_eta", "eta_seconds">>)])

\* the pipeline followed by the quality and correlation nodes
CorrSpecs ==
    {[plan(None, None, None, FALSE, 1) EXCEPT
        !.nodes = @ \o <<t_osm_quality, t4_corr>>,
        !.edges = @ \o <<Edge("t1_join", "t_osm_quality"),
                         Edge("t_osm_quality", "t4_corr")>>]}

\* the first node retried once more than the others may be, with its own
\* backoff_ms, the default one, or none
RetrySpecs ==
    {plan(Some(retry), None, None, FALSE, 0) :
        retry \in {[times |-> MaxRetry + 1]}
                   \cup {[times |-> MaxRetry + 1, backoff_ms |-> ms] : ms \in {0, 250}}}

\* specifications whose nodes is an empty list, missing, or not a list
BadSpecs ==
    {[nodes |-> <<>>, nodesKind |-> k, edges |-> <<>>,
      origin |-> Obj([c \in {"lat", "lon"} |-> Num(0)])] :
        k \in {"array", "missing", "notlist"}}

(* ------------------------------ state -------------------------------- *)
VARIABLES
    entry,       \* how the engine is reached: "run" (POST /run), "engine" (a direct
                 \* call of executePipeline), "fn" (a transform function on its own)
    clients,     \* the event-stream subscribers of the run and what each received
    fnCall,      \* the transform function applied on its own, with its arguments
    fnResult,    \* what it returned, once applied
    spec,        \* the specification the planner returns: nodes, edges, origin
    useMocks,    \* ctx.useMocks of the run
    pc,          \* position of the /run handler and of executePipeline
    i,           \* loop index of executePipeline (1-based)
    nodes,       \* status and error_message of the engine's node clones
    edges,       \* status of the engine's edge clones
    outputs,     \* the output store, node id -> value
    runLog,      \* the run log
    errors,      \* the error list
    calls,       \* the HTTP calls of the running node, one result slot each
    events,      \* the events emitted for the run, oldest first
    settleOrder, \* the calls of the last HTTP node, in the order their final
                 \* response or error arrived from the network
    resp,        \* the HTTP response of the /run request, once sent
    returned,    \* what executePipeline returned, once it has
    specStatus   \* the status fields of the specification object itself: those of
                 \* spec.nodes and of spec.edges, in list order

vars == <<entry, clients, fnCall, fnResult, spec, useMocks, pc, i, nodes, edges, outputs, runLog, errors, calls,
          events, settleOrder, resp, returned, specStatus>>

\* what no step of a run changes
fixed == <<entry, fnCall, fnResult, spec, useMocks>>

N == Len(spec.nodes)
node == spec.nodes[i]

\* getCurrentState(): the full node and edge arrays
getCurrentState(ns, es) ==
    [nodes |-> [k \in 1..Len(ns) |-> ns[k].status],
     edges |-> [k \in 1..Len(es) |-> es[k]]]

Event(type, nodeId, state) == [type |-> type, nodeId |-> nodeId, state |-> state]

\* the scope of executePipeline, and the per-call scope of runHttpNode
Scope(sub) ==
    Obj([k \in {"outputs", "context", "_origin"} \cup DOMAIN sub |->
            IF k = "outputs" THEN outputs
            ELSE IF k = "context" THEN EmptyObj
            ELSE IF k = "_origin" THEN spec.origin
            ELSE sub[k]])

(* ---------------------------- interpolation --------------------------- *)
\* String(val) for the values a template placeholder resolves to
String(val) ==
    CASE val.t = "str" -> val.s
      [] val.t = "num" -> ToString(val.n)
      [] OTHER -> "[object]"

\* String.prototype.split(',') and trim on the strings of the model
Split(s) ==
    CASE s = "5,7" -> <<"5", "7">>
      [] s = "5, 7" -> <<"5", " 7">>
      [] OTHER -> <<s>>
trim(s) == IF s = " 7" THEN "7" ELSE s

\* Array.prototype.join
RECURSIVE Join(_, _)
Join(strs, sep) ==
    IF strs = <<>> THEN ""
    ELSE IF Len(strs) = 1 THEN strs[1]
    ELSE strs[1] \o sep \o Join(Tail(strs), sep)

\* the origin of the scope as "lon,lat": scope._origin, else scope.context.origin
originCoords(scope) ==
    LET origin == Prop(scope, "_origin")
        context == Prop(scope, "context")
        ctxOrigin == IF IsNullish(context) THEN Undef ELSE Prop(context, "origin")
    IN IF Truthy(origin) /\ ~IsNullish(Prop(origin, "lon")) /\ ~IsNullish(Prop(origin, "lat"))
       THEN String(Prop(origin, "lon")) \o "," \o String(Prop(origin, "lat"))
       ELSE IF Truthy(ctxOrigin)
       THEN LET parts == Split(String(ctxOrigin))
            IN IF Len(parts) >= 2 /\ parts[1] # "" /\ parts[2] # ""
               THEN trim(parts[2]) \o "," \o trim(parts[1]) ELSE ""
       ELSE ""

\* the "lon,lat" pairs of the indices at which both arrays have a value
destCoords(lats, lons) ==
    LET kept == SelectSeq([k \in 1..Min(Len(lats), Len(lons)) |-> k],
                          LAMBDA k : ~IsNullish(lons[k]) /\ ~IsNullish(lats[k]))
    IN [k \in 1..Len(kept) |-> String(lons[kept[k]]) \o "," \o String(lats[kept[k]])]

\* what interpolate puts in the place of {{join_coords(latPath, lonPath)}}
join_coords(scope, latPath, lonPath) ==
    LET lats == resolvePathLike(scope, latPath)
        lons == resolvePathLike(scope, lonPath)
    IN IF IsArray(lats) /\ IsArray(lons)
       THEN LET origin == originCoords(scope)
            IN Join((IF origin # "" THEN <<origin>> ELSE <<>>) \o destCoords(lats.a, lons.a),
                    ";")
       ELSE ""

RECURSIVE interpolate(_, _)
interpolate(template, scope) ==
    IF template = <<>> THEN ""
    ELSE LET part == Head(template)
             text == IF part.t = "lit" THEN part.lit
                     ELSE IF part.t = "join_coords"
                     THEN join_coords(scope, part.lat, part.lon)
                     ELSE LET val == resolvePathLike(scope, part.hole)
                          IN IF IsNullish(val) THEN "" ELSE String(val)
         IN text \o interpolate(Tail(template), scope)

\* { ...currentScope, ...process.env }
WithEnv(scope, env) == Obj(env.o @@ scope.o)

\* mutant: every template is interpolated against the scope with the environment
compile_EnvEverywhere(nd, scope, env) ==
    LET base == Obj(("_origin" :> spec.origin) @@ scope.o)
        tmp == Obj([k \in DOMAIN nd.compose |->
                      Str(interpolate(nd.compose[k], WithEnv(base, env)))])
        currentScope == Obj(("compose" :> tmp) @@ base.o)
    IN [compose |-> tmp,
        url |-> interpolate(nd.url, WithEnv(currentScope, env)),
        params |-> [k \in DOMAIN nd.params |->
                      interpolate(nd.params[k], WithEnv(currentScope, env))],
        headers |-> [k \in DOMAIN nd.headers |->
                       interpolate(nd.headers[k], WithEnv(currentScope, env))],
        body |-> [k \in DOMAIN nd.body |->
                    interpolate(nd.body[k], WithEnv(currentScope, env))]]

\* lines 229-266: compose first, then url, params and body against the scope of
\* the call, headers against that scope with the process environment over it
compile(nd, scope, env) ==
    LET base == Obj(("_origin" :> spec.origin) @@ scope.o)
        tmp == Obj([k \in DOMAIN nd.compose |-> Str(interpolate(nd.compose[k], base))])
        currentScope == Obj(("compose" :> tmp) @@ base.o)
    IN [compose |-> tmp,
        url |-> interpolate(nd.url, currentScope),
        params |-> [k \in DOMAIN nd.params |-> interpolate(nd.params[k], currentScope)],
        headers |-> [k \in DOMAIN nd.headers |->
                       interpolate(nd.headers[k], WithEnv(currentScope, env))],
        body |-> [k \in DOMAIN nd.body |-> interpolate(nd.body[k], currentScope)]]

\* the request runHttpNode compiles for one call
Compiled(nd, call) ==
    [id |-> nd.id,
     params |-> [k \in DOMAIN nd.params |-> interpolate(nd.params[k], Scope(call.sub))]]

(* ------------------------------ remote APIs --------------------------- *)
\* latitude of the i-th place the places API lists
LatOf(k) == 40 - k

PlacesBody(n) ==
    Obj([k \in {"elements"} |->
            Arr([r \in 1..n |-> Obj([f \in {"lat"} |-> Num(LatOf(r))])])])

EtaBody(n) ==
    Obj([k \in {"durations"} |-> Arr(<<Arr([r \in 1..n |-> Num(60 * r)])>>)])

\* the weather API answers for the latitude it is asked about
WeatherBody(latitude) ==
    Obj([k \in {"current"} |->
            Obj([f \in {"temperature_2m"} |-> Str("temp@" \o latitude)])])

\* the bodies a 2xx response to a request may carry
Bodies(req) ==
    CASE req.id = "n1_overpass" -> {PlacesBody(n) : n \in 0..MaxRows}
      [] req.id = "n2_eta" -> {EtaBody(n) : n \in {0, MaxRows}}
      [] req.id = "n3_weather" -> {WeatherBody(req.params.latitude)}
      [] OTHER -> {EmptyObj}

\* error.message of a failed attempt: non-2xx status, timeout, network error
FailKinds == {"non2xx", "timeout", "network"}
ErrorMessage(kind) ==
    CASE kind = "non2xx" -> "Request failed with status code 500"
      [] kind = "timeout" -> "timeout exceeded"
      [] kind = "network" -> "Network Error"

(* ------------------------------ mock data ----------------------------- *)
MockLen == 8
\* a mocked weather reading: some number Math.random() decides
RandomReading == Str("17 + Math.random() * 3")

mockFor(nd) ==
    CASE nd.id = "n1_overpass" ->
            Obj([k \in {"lat"} |-> Arr([r \in 1..MockLen |-> Num(LatOf(r))])])
      [] nd.id = "n2_eta" ->
            Obj([k \in {"eta_seconds"} |->
                    Arr([r \in 1..MockLen |-> Num(240 + 40 * (r - 1))])])
      [] nd.id = "n3_weather" ->
            Obj([k \in {"temp_c"} |-> Arr([r \in 1..MockLen |-> RandomReading])])
      [] OTHER -> EmptyObj

(* ---------------------------- HTTP node runner ------------------------ *)
\* mutant: the loop bound is off by one
maxRetries_OffByOne(nd) == IF nd.retry = None THEN 1 ELSE nd.retry[1].times + 1

maxRetries(nd) == IF nd.retry = None THEN 0 ELSE nd.retry[1].times

\* node.retry?.backoff_ms ?? 100
backoff(nd) ==
    IF nd.retry # None /\ "backoff_ms" \in DOMAIN nd.retry[1]
    THEN nd.retry[1].backoff_ms ELSE 100

\* mutant: every wait lasts backoff_ms
Wait_Fixed(nd, attempts) == backoff(nd)

\* line 297: the sleep after failed attempt number attempts
Wait(nd, attempts) == backoff(nd) * 2 ^ (attempts - 1)

\* one HTTP call: its position in runHttpNode and the promise's outcome;
\* requests and failures count the requests sent and those that failed,
\* waits lists the backoff sleeps in milliseconds
NewCall(phase, attempts, sub) ==
    [phase |-> phase, attempts |-> attempts, sub |-> sub, data |-> Undef,
     reason |-> <<>>, requests |-> attempts, failures |-> 0, fallbackUsed |-> FALSE,
     waits |-> <<>>]

Settled(call) == call.phase \in {"fulfilled", "rejected"}

\* the error runHttpNode throws once the retries are used up
ExhaustedError(nd, attempts, message) ==
    IF nd.fallback
    THEN <<"Node", nd.id, "failed after", ToString(attempts), "attempts:", message>>
    ELSE <<message>>

\* mutant: the mock branch is skipped
EnterRunHttpNode_Live(sub) == NewCall("inflight", 1, sub)

\* entry of runHttpNode: the mock branch, or the first attempt's request
EnterRunHttpNode(sub) ==
    IF useMocks THEN NewCall("mock", 0, sub) ELSE NewCall("inflight", 1, sub)

\* the delay before a live fan-out call has elapsed: runHttpNode starts
CallDelayDone(j) ==
    /\ pc = "fanout"
    /\ calls[j].phase = "delay"
    /\ calls' = [calls EXCEPT ![j] = EnterRunHttpNode(calls[j].sub)]
    /\ UNCHANGED <<fixed, pc, i, nodes, edges, outputs, runLog, errors,
                   events, settleOrder, resp, returned, specStatus>>

\* mock mode: the simulated delay has elapsed, the canned payload is returned
MockReturn(j) ==
    /\ pc \in {"http", "fanout"}
    /\ calls[j].phase = "mock"
    /\ calls' = [calls EXCEPT ![j].phase = "fulfilled", ![j].attempts = 1,
                              ![j].data = mockFor(node)]
    /\ UNCHANGED <<fixed, pc, i, nodes, edges, outputs, runLog, errors,
                   events, settleOrder, resp, returned, specStatus>>

\* axios resolves with a 2xx response: the body is mapped and returned
AttemptSucceeds(j) ==
    /\ pc \in {"http", "fanout"}
    /\ calls[j].phase = "inflight"
    /\ \E body \in Bodies(Compiled(node, calls[j])) :
          calls' = [calls EXCEPT ![j].phase = "fulfilled",
                                 ![j].data = applyMap(body, node.map)]
    /\ settleOrder' = Append(settleOrder, j)
    /\ UNCHANGED <<fixed, pc, i, nodes, edges, outputs, runLog, errors,
                   events, resp, returned, specStatus>>

\* mutant: a call that gives up pushes its error itself
AttemptFails_PushesError(j) ==
    /\ pc \in {"http", "fanout"}
    /\ calls[j].phase = "inflight"
    /\ \E kind \in FailKinds :
          calls' = [calls EXCEPT ![j] =
              IF calls[j].attempts > maxRetries(node)
              THEN [@ EXCEPT !.phase = "rejected", !.failures = @ + 1,
                             !.reason = ExhaustedError(node, calls[j].attempts,
                                                       ErrorMessage(kind))]
              ELSE [@ EXCEPT !.phase = "backoff", !.failures = @ + 1,
                             !.waits = Append(@, Wait(node, calls[j].attempts))]]
    /\ settleOrder' = IF calls'[j].phase = "rejected"
                      THEN Append(settleOrder, j) ELSE settleOrder
    /\ errors' = IF calls'[j].phase = "rejected"
                 THEN Append(errors, [node_id |-> node.id, error |-> calls'[j].reason])
                 ELSE errors
    /\ UNCHANGED <<fixed, pc, i, nodes, edges, outputs, runLog,
                   events, resp, returned, specStatus>>

\* axios rejects: retry after the backoff, or throw once attempts > maxRetries
AttemptFails(j) ==
    /\ pc \in {"http", "fanout"}
    /\ calls[j].phase = "inflight"
    /\ \E kind \in FailKinds :
          calls' = [calls EXCEPT ![j] =
              IF calls[j].attempts > maxRetries(node)
              THEN [@ EXCEPT !.phase = "rejected", !.failures = @ + 1,
                             !.reason = ExhaustedError(node, calls[j].attempts,
                                                       ErrorMessage(kind))]
              ELSE [@ EXCEPT !.phase = "backoff", !.failures = @ + 1,
                             !.waits = Append(@, Wait(node, calls[j].attempts))]]
    /\ settleOrder' = IF calls'[j].phase = "rejected"
                      THEN Append(settleOrder, j) ELSE settleOrder
    /\ UNCHANGED <<fixed, pc, i, nodes, edges, outputs, runLog, errors,
                   events, resp, returned, specStatus>>

\* the backoff sleep has elapsed: the loop makes the next attempt
BackoffDone(j) ==
    /\ pc \in {"http", "fanout"}
    /\ calls[j].phase = "backoff"
    /\ calls[j].attempts <= maxRetries(node)
    /\ calls' = [calls EXCEPT ![j].phase = "inflight", ![j].attempts = @ + 1,
                              ![j].requests = @ + 1]
    /\ UNCHANGED <<fixed, pc, i, nodes, edges, outputs, runLog, errors,
                   events, settleOrder, resp, returned, specStatus>>

(* ---------------------------- transform runner ------------------------ *)
Arg(nd, name) == IF name \in DOMAIN nd.args THEN nd.args[name] ELSE Undef

OutputsRoot(outs) == Obj([k \in {"outputs"} |-> outs])

\* the resolved arguments of a join_on_index node (lines 313-315)
JoinArgs(nd, outs) ==
    LET paths == IF "rightArrays" \in DOMAIN nd.args /\ IsArray(nd.args.rightArrays)
                 THEN nd.args.rightArrays.a ELSE <<>>
    IN [left |-> resolvePathLike(OutputsRoot(outs), Arg(nd, "left")),
        rightArrays |-> [j \in 1..Len(paths) |->
                            resolvePathLike(OutputsRoot(outs), paths[j])],
        rightKeys |-> IF "rightKeys" \in DOMAIN nd.args THEN nd.args.rightKeys ELSE <<>>]

\* mutant: a join input that does not resolve makes the transform throw
runTransformNode_Strict(nd, outs) ==
    IF nd.fn = "join_on_index"
    THEN LET a == JoinArgs(nd, outs)
         IN IF IsNullish(a.left) \/ \E j \in 1..Len(a.rightArrays) :
                                        IsNullish(a.rightArrays[j])
            THEN [ok |-> FALSE, error |-> <<"Cannot read properties of undefined">>]
            ELSE [ok |-> TRUE,
                  data |-> Arr(t_join_on_index(a.left, a.rightArrays, a.rightKeys))]
    ELSE [ok |-> TRUE,
          data |-> Coalesce(resolvePathLike(OutputsRoot(outs), Arg(nd, "from")), Null)]

\* (node.args?.rightArrays || []).map: a truthy value without a map method throws
HasNoMap(v) == v.t = "num" \/ v.t = "obj" \/ (v.t = "str" /\ v.s # "")

\* the number a fraction stands for, as a value of the output store
NumberOf(q) == IF q.den = 1 THEN Num(q.num) ELSE [t |-> "float", q |-> q]

\* runTransformNode: [ok, data] when it returns, [ok, error] when it throws
runTransformNode(nd, outs) ==
    IF nd.fn = "join_on_index"
    THEN LET a == JoinArgs(nd, outs)
         IN IF HasNoMap(Arg(nd, "rightArrays"))
            THEN [ok |-> FALSE,
                  error |-> <<"(node.args?.rightArrays || []).map is not a function">>]
            ELSE [ok |-> TRUE,
                  data |-> Arr(t_join_on_index(Coalesce(a.left, Arr(<<>>)),
                                               a.rightArrays, a.rightKeys))]
    ELSE IF nd.fn = "compute_osm_quality"
    THEN LET arr == Coalesce(resolvePathLike(OutputsRoot(outs),
                                OrElse(Arg(nd, "from"), DotPath(<<"outputs", "t1_join">>))),
                             Arr(<<>>))
         IN [ok |-> TRUE, data |-> Arr(t_compute_osm_quality(arr, Arg(nd, "fields")))]
    ELSE IF nd.fn = "top_n"
    THEN LET arr == Coalesce(resolvePathLike(OutputsRoot(outs),
                                OrElse(Arg(nd, "from"), DotPath(<<"outputs", "t2_score">>))),
                             Arr(<<>>))
             n == Coalesce(Arg(nd, "n"), Num(5)).n
             by == OrElse(Arg(nd, "by"), Str("score")).s
             desc == Arg(nd, "desc") # False
         IN [ok |-> TRUE, data |-> Arr(t_top_n(arr, n, by, desc).result)]
    ELSE IF nd.fn = "correlation"
    THEN LET xs == resolvePathLike(OutputsRoot(outs), Arg(nd, "xFrom"))
             ys == resolvePathLike(OutputsRoot(outs), Arg(nd, "yFrom"))
         IN [ok |-> TRUE, data |-> NumberOf(t_correlation(xs, ys).r)]
    ELSE [ok |-> TRUE,
          data |-> Coalesce(resolvePathLike(OutputsRoot(outs), Arg(nd, "from")), Null)]

(* ---------------------------- execution engine ------------------------ *)
SetEdges(es, field, id, status) ==
    [k \in 1..Len(es) |-> IF spec.edges[k][field] = id THEN status ELSE es[k]]

\* mutant: the node is announced but its status is left as it was
MarkRunning_NoStatus ==
    /\ nodes' = nodes
    /\ edges' = SetEdges(edges, "to", node.id, "running")
    /\ events' = Append(events,
                        Event("node_start", node.id, getCurrentState(nodes', edges')))
    /\ specStatus' = specStatus

\* mutant: node_start is published before the statuses are set
MarkRunning_PublishesFirst ==
    /\ nodes' = [nodes EXCEPT ![i].status = "running"]
    /\ edges' = SetEdges(edges, "to", node.id, "running")
    /\ events' = Append(events,
                        Event("node_start", node.id, getCurrentState(nodes, edges)))
    /\ specStatus' = specStatus

\* mutant: the engine works on the specification's own node and edge objects
MarkRunning_InPlace ==
    /\ nodes' = [nodes EXCEPT ![i].status = "running"]
    /\ edges' = SetEdges(edges, "to", node.id, "running")
    /\ events' = Append(events,
                        Event("node_start", node.id, getCurrentState(nodes', edges')))
    /\ specStatus' = [nodes |-> [k \in 1..N |-> nodes'[k].status], edges |-> edges']

\* lines 381-384: mark the node and its incoming edges running, publish node_start;
\* node and edges are the clones of lines 365-366, the specification's own objects
\* are not written
MarkRunning ==
    /\ nodes' = [nodes EXCEPT ![i].status = "running"]
    /\ edges' = SetEdges(edges, "to", node.id, "running")
    /\ events' = Append(events,
                        Event("node_start", node.id, getCurrentState(nodes', edges')))
    /\ specStatus' = specStatus

\* mutant: the output is stored and logged but the node is left running
CompleteNode_StaysRunning(data, attempts, errs) ==
    /\ outputs' = Obj((node.id :> data) @@ outputs.o)
    /\ nodes' = nodes
    /\ edges' = SetEdges(edges, "from", node.id, "completed")
    /\ errors' = errs
    /\ runLog' = Append(runLog, [node_id |-> node.id, status |-> "ok",
                                 attempts |-> attempts, error |-> <<>>])
    /\ events' = Append(events,
                        Event("node_complete", node.id, getCurrentState(nodes', edges')))
    /\ i' = i + 1
    /\ pc' = "node"

\* lines 484-491: store the output, mark completed, log, publish node_complete
CompleteNode(data, attempts, errs) ==
    /\ outputs' = Obj((node.id :> data) @@ outputs.o)
    /\ nodes' = [nodes EXCEPT ![i].status = "completed"]
    /\ edges' = SetEdges(edges, "from", node.id, "completed")
    /\ errors' = errs
    /\ runLog' = Append(runLog, [node_id |-> node.id, status |-> "ok",
                                 attempts |-> attempts, error |-> <<>>])
    /\ events' = Append(events,
                        Event("node_complete", node.id, getCurrentState(nodes', edges')))
    /\ i' = i + 1
    /\ pc' = "node"

\* mutant: a failed node ends the loop
FailNode_Abort(errorMsg) ==
    /\ nodes' = [nodes EXCEPT ![i].status = "failed", ![i].error_message = errorMsg]
    /\ edges' = SetEdges(edges, "from", node.id, "failed")
    /\ errors' = Append(errors, [node_id |-> node.id, error |-> errorMsg])
    /\ runLog' = Append(runLog, [node_id |-> node.id, status |-> "error",
                                 attempts |-> 1, error |-> errorMsg])
    /\ events' = Append(events,
                        Event("node_fail", node.id, getCurrentState(nodes', edges')))
    /\ i' = N + 1
    /\ pc' = "node"
    /\ UNCHANGED outputs

\* mutant: the catch publishes node_complete
FailNode_PublishesComplete(errorMsg) ==
    /\ nodes' = [nodes EXCEPT ![i].status = "failed", ![i].error_message = errorMsg]
    /\ edges' = SetEdges(edges, "from", node.id, "failed")
    /\ errors' = Append(errors, [node_id |-> node.id, error |-> errorMsg])
    /\ runLog' = Append(runLog, [node_id |-> node.id, status |-> "error",
                                 attempts |-> 1, error |-> errorMsg])
    /\ events' = Append(events,
                        Event("node_complete", node.id, getCurrentState(nodes', edges')))
    /\ i' = i + 1
    /\ pc' = "node"
    /\ UNCHANGED outputs

\* mutant: a failed node leaves null in the output store
FailNode_StoresNull(errorMsg) ==
    /\ nodes' = [nodes EXCEPT ![i].status = "failed", ![i].error_message = errorMsg]
    /\ edges' = SetEdges(edges, "from", node.id, "failed")
    /\ errors' = Append(errors, [node_id |-> node.id, error |-> errorMsg])
    /\ runLog' = Append(runLog, [node_id |-> node.id, status |-> "error",
                                 attempts |-> 1, error |-> errorMsg])
    /\ events' = Append(events,
                        Event("node_fail", node.id, getCurrentState(nodes', edges')))
    /\ i' = i + 1
    /\ pc' = "node"
    /\ outputs' = Obj((node.id :> Null) @@ outputs.o)

\* lines 494-505: mark failed, record the error, log, publish node_fail
FailNode(errorMsg) ==
    /\ nodes' = [nodes EXCEPT ![i].status = "failed", ![i].error_message = errorMsg]
    /\ edges' = SetEdges(edges, "from", node.id, "failed")
    /\ errors' = Append(errors, [node_id |-> node.id, error |-> errorMsg])
    /\ runLog' = Append(runLog, [node_id |-> node.id, status |-> "error",
                                 attempts |-> 1, error |-> errorMsg])
    /\ events' = Append(events,
                        Event("node_fail", node.id, getCurrentState(nodes', edges')))
    /\ i' = i + 1
    /\ pc' = "node"
    /\ UNCHANGED outputs

\* mutant: fanout.max is ignored
FanoutCap_NoCap(fanout, baseArr) == Len(baseArr)

\* line 399: the number of calls of a fan-out
FanoutCap(fanout, baseArr) ==
    Min(IF fanout.max = 0 THEN Len(baseArr) ELSE fanout.max, Len(baseArr))

\* mutant: a fan-out dispatches at least one call, with an absent row when there is none
FanoutCalls_AtLeastOne(nd) ==
    LET fanout == nd.fanout[1]
        baseArr == asRows(OrElse(resolvePathLike(Scope(<<>>), fanout.over), Arr(<<>>)))
        cap == Max(1, FanoutCap(fanout, baseArr))
    IN [j \in 1..cap |->
          NewCall(IF useMocks THEN "mock" ELSE "delay", 0,
                  [key \in DOMAIN fanout.mapping |->
                      IF j > Len(baseArr) \/ IsNullish(baseArr[j]) THEN Undef
                      ELSE Prop(baseArr[j], fanout.mapping[key])])]

\* lines 398-423: the calls a fan-out node dispatches, one per row
FanoutCalls(nd) ==
    LET fanout == nd.fanout[1]
        baseArr == asRows(OrElse(resolvePathLike(Scope(<<>>), fanout.over), Arr(<<>>)))
        cap == FanoutCap(fanout, baseArr)
    IN [j \in 1..cap |->
          NewCall(IF useMocks THEN "mock" ELSE "delay", 0,
                  [key \in DOMAIN fanout.mapping |->
                      IF IsNullish(baseArr[j]) THEN Undef
                      ELSE Prop(baseArr[j], fanout.mapping[key])])]

IsFanout(nd) == nd.fanout # None /\ nd.fanout[1].over.t # "undefined"

\* one loop iteration up to its first await (or up to the transform call)
StartNode ==
    /\ pc = "node"
    /\ i <= N
    /\ MarkRunning
    /\ IF node.type = "http"
       THEN IF IsFanout(node)
            THEN calls' = FanoutCalls(node) /\ pc' = "fanout"
            ELSE calls' = <<EnterRunHttpNode(<<>>)>> /\ pc' = "http"
       ELSE calls' = <<>> /\ pc' = "transform"
    /\ settleOrder' = <<>>
    /\ UNCHANGED <<fixed, i, outputs, runLog, errors, resp, returned>>

\* a single HTTP call has settled: lines 467-471, then completion or the catch
FinishHttp ==
    /\ pc = "http"
    /\ Settled(calls[1])
    /\ IF calls[1].phase = "fulfilled"
       THEN CompleteNode(calls[1].data, calls[1].attempts, errors)
       ELSE FailNode(calls[1].reason)
    /\ calls' = <<>>
    /\ UNCHANGED <<fixed, settleOrder, resp, returned, specStatus>>

(* ------------------------------ fan-out merge -------------------------- *)
\* `${node.id}[${j}]` with the 0-based index of the call
ScopedId(id, j) == id \o "[" \o ToString(j - 1) \o "]"

\* lines 445-447: one error entry per rejected call, in index order
RECURSIVE FanoutErrors(_, _, _)
FanoutErrors(nd, settled, j) ==
    IF j > Len(settled) THEN <<>>
    ELSE (IF settled[j].phase = "rejected"
          THEN <<[node_id |-> ScopedId(nd.id, j), error |-> settled[j].reason]>>
          ELSE <<>>) \o FanoutErrors(nd, settled, j + 1)

\* the columns call j writes: the keys of its result, or of node.map when it failed
CallKeys(nd, call) ==
    IF call.phase = "fulfilled"
    THEN (IF isObj(call.data) THEN DOMAIN call.data.o ELSE {})
    ELSE (IF isObj(nd.map) THEN DOMAIN nd.map.o ELSE {})

\* Array.isArray(val) ? val[0] : val
FirstOf(val) ==
    IF IsArray(val) THEN (IF Len(val.a) > 0 THEN val.a[1] ELSE Undef) ELSE val

\* mutant: a failed call gets no position, the results that follow move up
MergeColumns_DropFailed(nd, settled) ==
    LET ok == SelectSeq(settled, LAMBDA c : c.phase = "fulfilled")
        keys == UNION {CallKeys(nd, settled[j]) : j \in 1..Len(settled)}
    IN Obj([k \in keys |->
              Arr([j \in 1..Len(ok) |->
                     IF k \in CallKeys(nd, ok[j]) THEN FirstOf(ok[j].data.o[k])
                     ELSE Null])])

\* mutant: results are placed in the order the responses arrived
MergeColumns_ByArrival(nd, settled) ==
    LET cap == Len(settled)
        at(j) == IF Len(settleOrder) = cap THEN settled[settleOrder[j]] ELSE settled[j]
        keys == UNION {CallKeys(nd, settled[j]) : j \in 1..cap}
    IN Obj([k \in keys |->
              Arr([j \in 1..cap |->
                     IF at(j).phase = "fulfilled" /\ k \in CallKeys(nd, at(j))
                     THEN FirstOf(at(j).data.o[k])
                     ELSE Null])])

\* lines 428-456: columns of cap positions, filled by index, null where a call failed
MergeColumns(nd, settled) ==
    LET cap == Len(settled)
        keys == UNION {CallKeys(nd, settled[j]) : j \in 1..cap}
    IN Obj([k \in keys |->
              Arr([j \in 1..cap |->
                     IF settled[j].phase = "fulfilled" /\ k \in CallKeys(nd, settled[j])
                     THEN FirstOf(settled[j].data.o[k])
                     ELSE Null])])

RECURSIVE MaxAttempts(_, _, _)
MaxAttempts(nd, settled, j) ==
    IF j > Len(settled) THEN 1
    ELSE Max(IF settled[j].phase = "fulfilled" THEN settled[j].attempts
             ELSE maxRetries(nd) + 1,
             MaxAttempts(nd, settled, j + 1))

\* Promise.allSettled has resolved: merge, then complete the node
FanoutMerge ==
    /\ pc = "fanout"
    /\ \A j \in 1..Len(calls) : Settled(calls[j])
    /\ CompleteNode(MergeColumns(node, calls), MaxAttempts(node, calls, 1),
                    errors \o FanoutErrors(node, calls, 1))
    /\ calls' = <<>>
    /\ UNCHANGED <<fixed, settleOrder, resp, returned, specStatus>>

\* lines 473-478: a transform node runs synchronously
RunTransform ==
    /\ pc = "transform"
    /\ IF node.type = "transform"
       THEN LET r == runTransformNode(node, outputs)
            IN IF r.ok THEN CompleteNode(r.data, 1, errors) ELSE FailNode(r.error)
       ELSE CompleteNode(Null, 1, errors)
    /\ UNCHANGED <<fixed, calls, settleOrder, resp, returned, specStatus>>

\* v.length
Length(v) ==
    CASE IsArray(v) -> Num(Len(v.a))
      [] OTHER -> Undef

\* lines 509-517: the store, with ranked_list, correlation and count set from the
\* outputs of the nodes named t3_top, t4_corr and t1_join
finalOutputs(outs) ==
    LET joined == Length(OrElse(Prop(outs, "t1_join"), Arr(<<>>)))
    IN Obj([k \in DOMAIN outs.o \cup {"ranked_list", "correlation", "count"} |->
              CASE k = "ranked_list" -> OrElse(Prop(outs, "t3_top"), Arr(<<>>))
                [] k = "correlation" ->
                     Obj([f \in {"x", "y", "pearson_r", "n"} |->
                            CASE f = "x" -> Str("quality")
                              [] f = "y" -> Str("eta_seconds")
                              [] f = "pearson_r" -> Coalesce(Prop(outs, "t4_corr"), Num(0))
                              [] f = "n" -> joined])
                [] k = "count" -> joined
                [] OTHER -> outs.o[k]])

\* lines 509-520: the loop is over, executePipeline returns
Return ==
    /\ pc = "node"
    /\ i > N
    /\ pc' = "returned"
    /\ returned' = Some([outputs |-> finalOutputs(outputs), log |-> runLog,
                         errors |-> errors])
    /\ UNCHANGED <<fixed, i, nodes, edges, outputs, runLog, errors, calls,
                   events, settleOrder, resp, specStatus>>

(* ------------------------------ /run handler --------------------------- *)
NoState == [nodes |-> <<>>, edges |-> <<>>]

\* the request arrives: planning_start is emitted and the planner is awaited
ReceiveRun ==
    /\ pc = "request"
    /\ events' = Append(events, Event("planning_start", "", NoState))
    /\ pc' = "planning"
    /\ UNCHANGED <<fixed, i, nodes, edges, outputs, runLog, errors, calls,
                   settleOrder, resp, returned, specStatus>>

\* !spec || !Array.isArray(spec.nodes) || spec.nodes.length === 0
ValidSpec(sp) == sp.nodesKind = "array" /\ Len(sp.nodes) > 0

\* executePipeline called directly: lines 361-372. spec.nodes.map throws a
\* TypeError when nodes is missing or has no map method; an empty list passes
EnterPipeline ==
    /\ pc = "call"
    /\ IF spec.nodesKind = "array"
       THEN /\ nodes' = [k \in 1..N |-> [status |-> "pending", error_message |-> <<>>]]
            /\ edges' = [k \in 1..Len(spec.edges) |-> "pending"]
            /\ pc' = "node"
       ELSE /\ pc' = "thrown"
            /\ UNCHANGED <<nodes, edges>>
    /\ UNCHANGED <<fixed, i, outputs, runLog, errors, calls, events, settleOrder, resp, returned, specStatus>>

\* the planner has answered: validation, planning_complete, execution_start and
\* the entry of executePipeline (lines 361-368), or the handler's catch
Planned ==
    /\ pc = "planning"
    /\ IF ValidSpec(spec)
       THEN /\ nodes' = [k \in 1..N |-> [status |-> "pending", error_message |-> <<>>]]
            /\ edges' = [k \in 1..Len(spec.edges) |-> "pending"]
            /\ events' = events \o
                 <<Event("planning_complete", "",
                         [nodes |-> [k \in 1..N |-> "pending"],
                          edges |-> [k \in 1..Len(spec.edges) |-> "pending"]]),
                   Event("execution_start", "", NoState)>>
            /\ pc' = "node"
            /\ resp' = resp
       ELSE /\ events' = events \o
                 <<Event("error", "", NoState), Event("pipeline_complete", "", NoState)>>
            /\ resp' = Some([code |-> 500, status |-> "error", errors |-> <<>>,
                             log |-> <<>>])
            /\ pc' = "responded"
            /\ UNCHANGED <<nodes, edges>>
    /\ i' = 1
    /\ outputs' = EmptyObj
    /\ runLog' = <<>>
    /\ errors' = <<>>
    /\ UNCHANGED <<fixed, calls, settleOrder, returned, specStatus>>

\* mutant: only an ok log entry gives a node a final status
FinalNodeStatus_OkOnly(log, id) ==
    IF \E k \in 1..Len(log) : log[k].node_id = id /\ log[k].status = "ok"
    THEN "completed"
    ELSE "pending"

\* lines 456-472: the final snapshot is rebuilt from the log
FinalNodeStatus(log, id) ==
    IF \E k \in 1..Len(log) : log[k].node_id = id
    THEN LET first == CHOOSE k \in 1..Len(log) :
                         log[k].node_id = id /\ \A h \in 1..(k - 1) : log[h].node_id # id
         IN IF log[first].status = "ok" THEN "completed" ELSE "failed"
    ELSE "pending"

FinalState(sp, log) ==
    LET finalNodes == [k \in 1..Len(sp.nodes) |-> FinalNodeStatus(log, sp.nodes[k].id)]
        source(e) == CHOOSE k \in 1..Len(sp.nodes) :
                        sp.nodes[k].id = e.from
                        /\ \A h \in 1..(k - 1) : sp.nodes[h].id # e.from
        edgeStatus(e) ==
            IF \E k \in 1..Len(sp.nodes) : sp.nodes[k].id = e.from
            THEN (IF finalNodes[source(e)] \in {"completed", "failed"}
                  THEN finalNodes[source(e)] ELSE "pending")
            ELSE "pending"
    IN [nodes |-> finalNodes,
        edges |-> [k \in 1..Len(sp.edges) |-> edgeStatus(sp.edges[k])]]

\* Number(v).toFixed(2) of a whole number
toFixed2(v) ==
    CASE v.t = "num" -> ToString(v.n) \o ".00"
      [] v.t = "null" -> "0.00"
      [] OTHER -> "NaN"

\* `${v}` of a count
Template(v) == IF v.t = "num" THEN ToString(v.n) ELSE "undefined"

\* mutant: a run without results has no summary
Response_NoSummary(ret) ==
    LET outs == ret.outputs
        ranked == IF IsArray(Prop(outs, "ranked_list")) THEN outs.o["ranked_list"].a ELSE <<>>
        corr == OrElse(Prop(outs, "correlation"),
                       Obj([f \in {"x", "y", "pearson_r", "n"} |->
                              CASE f = "x" -> Str("quality")
                                [] f = "y" -> Str("eta_seconds")
                                [] OTHER -> Num(0)]))
        count == Coalesce(Prop(outs, "count"), Num(0))
    IN [code |-> 200, status |-> "ok",
        summary |-> IF Len(ranked) > 0
                    THEN Some("Found " \o Template(count)
                            \o " restaurants. Quality vs ETA correlation r="
                            \o toFixed2(Prop(corr, "pearson_r"))
                            \o ". Showing top " \o ToString(Len(ranked)) \o ".")
                    ELSE None,
        ranked_list |-> ranked, correlation |-> corr,
        errors |-> ret.errors, log |-> ret.log]

\* lines 404-451: the response composed from what executePipeline returned
Response(ret) ==
    LET outs == ret.outputs
        ranked == IF IsArray(Prop(outs, "ranked_list")) THEN outs.o["ranked_list"].a ELSE <<>>
        corr == OrElse(Prop(outs, "correlation"),
                       Obj([f \in {"x", "y", "pearson_r", "n"} |->
                              CASE f = "x" -> Str("quality")
                                [] f = "y" -> Str("eta_seconds")
                                [] OTHER -> Num(0)]))
        count == Coalesce(Prop(outs, "count"), Num(0))
    IN [code |-> 200, status |-> "ok",
        summary |-> Some(IF Len(ranked) > 0
                         THEN "Found " \o Template(count)
                                \o " restaurants. Quality vs ETA correlation r="
                                \o toFixed2(Prop(corr, "pearson_r"))
                                \o ". Showing top " \o ToString(Len(ranked)) \o "."
                         ELSE "No results."),
        ranked_list |-> ranked, correlation |-> corr,
        errors |-> ret.errors, log |-> ret.log]

\* mutant: the final event is emitted before and after the response is composed
Respond_EmitsTwice ==
    /\ pc = "returned"
    /\ entry = "run"
    /\ resp' = Some(Response(returned[1]))
    /\ events' = events \o <<Event("pipeline_complete", "", FinalState(spec, runLog)),
                              Event("pipeline_complete", "", FinalState(spec, runLog))>>
    /\ pc' = "responded"
    /\ UNCHANGED <<fixed, i, nodes, edges, outputs, runLog, errors, calls, settleOrder,
                   returned, specStatus>>

\* executePipeline has returned: the response is composed and sent
Respond ==
    /\ pc = "returned"
    /\ entry = "run"
    /\ resp' = Some(Response(returned[1]))
    /\ events' = Append(events, Event("pipeline_complete", "", FinalState(spec, runLog)))
    /\ pc' = "responded"
    /\ UNCHANGED <<fixed, i, nodes, edges, outputs, runLog, errors, calls,
                   settleOrder, returned, specStatus>>

(* ------------------------------ behaviours ----------------------------- *)
\* a subscriber: not connected, connected, or gone, and the events written to it
Clients == {"c1"}
NoClients == [c \in Clients |-> [state |-> "none", received |-> <<>>]]

\* emit: every event of the step is written to each subscriber connected to the run
emit ==
    clients' = [c \in Clients |->
                  IF entry = "run" /\ clients[c].state = "open"
                  THEN [clients[c] EXCEPT !.received =
                          @ \o [k \in 1..(Len(events') - Len(events)) |->
                                  events'[Len(events) + k].type]]
                  ELSE clients[c]]

\* what a subscriber step leaves alone: the run itself
run == <<fixed, pc, i, nodes, edges, outputs, runLog, errors, calls, events,
         settleOrder, resp, returned, specStatus>>

\* GET /events/:id: the connection joins the run's listeners, then hello is emitted
\* to every listener of the run
addClient(c) ==
    /\ entry = "run"
    /\ clients[c].state = "none"
    /\ clients' = [d \in Clients |->
                     IF d = c THEN [state |-> "open", received |-> <<"hello">>]
                     ELSE IF clients[d].state = "open"
                     THEN [clients[d] EXCEPT !.received = Append(@, "hello")]
                     ELSE clients[d]]
    /\ UNCHANGED run

\* mutant: when the last listener leaves, the run is dropped
removeClient_DropsRun(c) ==
    /\ clients[c].state = "open"
    /\ clients' = [clients EXCEPT ![c].state = "closed"]
    /\ IF \A d \in Clients \ {c} : clients[d].state # "open"
       THEN /\ pc' = "responded"
            /\ resp' = Some([code |-> 500, status |-> "error", errors |-> <<>>,
                             log |-> <<>>])
       ELSE UNCHANGED <<pc, resp>>
    /\ UNCHANGED <<fixed, i, nodes, edges, outputs, runLog, errors, calls, events,
                   settleOrder, returned, specStatus>>

\* the connection closes: it leaves the run's listeners
removeClient(c) ==
    /\ clients[c].state = "open"
    /\ clients' = [clients EXCEPT ![c].state = "closed"]
    /\ UNCHANGED run

NoCall == [fn |-> "none"]

\* the pipeline with the fan-out node listed before the node whose output it fans
\* out over
EarlySpecs ==
    {[plan(None, None, None, FALSE, 1) EXCEPT
         !.nodes = <<n3_weather(None, 1), n1_overpass(None), n2_eta(None, FALSE), t1_join>>]}

\* planner.js 17-191: every node and every edge of a plan is created with status
\* 'pending'
planned(sp) ==
    [nodes |-> [k \in 1..Len(sp.nodes) |-> "pending"],
     edges |-> [k \in 1..Len(sp.edges) |-> "pending"]]

Init ==
    /\ \/ entry = "run" /\ pc = "request"
            /\ spec \in Specs \cup OddSpecs \cup BadSpecs \cup RankSpecs \cup RetrySpecs
                         \cup CorrSpecs \cup EarlySpecs
       \/ entry = "engine" /\ pc = "call"
            /\ spec \in BadSpecs \cup RankSpecs \cup {plan(None, None, None, FALSE, 1)}
    /\ clients = NoClients
    /\ fnCall = NoCall
    /\ fnResult = None
    /\ useMocks \in BOOLEAN
    /\ i = 1
    /\ nodes = <<>>
    /\ edges = <<>>
    /\ outputs = EmptyObj
    /\ runLog = <<>>
    /\ errors = <<>>
    /\ calls = <<>>
    /\ events = <<>>
    /\ settleOrder = <<>>
    /\ resp = None
    /\ returned = None
    /\ specStatus = planned(spec)

Next ==
    \/ ReceiveRun /\ emit
    \/ Planned /\ emit
    \/ EnterPipeline /\ emit
    \/ StartNode /\ emit
    \/ \E j \in 1..Len(calls) : CallDelayDone(j) /\ emit
    \/ \E j \in 1..Len(calls) : MockReturn(j) /\ emit
    \/ \E j \in 1..Len(calls) : AttemptSucceeds(j) /\ emit
    \/ \E j \in 1..Len(calls) : AttemptFails(j) /\ emit
    \/ \E j \in 1..Len(calls) : BackoffDone(j) /\ emit
    \/ FinishHttp /\ emit
    \/ FanoutMerge /\ emit
    \/ RunTransform /\ emit
    \/ Return /\ emit
    \/ Respond /\ emit

Spec == Init /\ [][Next]_vars

\* the steps that wait for the event loop: a request, a timer, a response, the
\* continuation of an await
Awaited ==
    \/ ReceiveRun /\ emit
    \/ Planned /\ emit
    \/ EnterPipeline /\ emit
    \/ StartNode /\ emit
    \/ \E j \in 1..Len(calls) : CallDelayDone(j) /\ emit
    \/ \E j \in 1..Len(calls) : MockReturn(j) /\ emit
    \/ \E j \in 1..Len(calls) : AttemptSucceeds(j) /\ emit
    \/ \E j \in 1..Len(calls) : AttemptFails(j) /\ emit
    \/ \E j \in 1..Len(calls) : BackoffDone(j) /\ emit
    \/ FinishHttp /\ emit
    \/ FanoutMerge /\ emit
    \/ Return /\ emit
    \/ Respond /\ emit

\* a transform is a synchronous call: once entered, it returns or throws
TransformReturns == pc = "transform" /\ pc' = "node"

\* every pending timer and request of the run eventually fires or answers, and
\* every synchronous call ends
Fairness == WF_vars(Awaited) /\ WF_pc(TransformReturns)

FairSpec == Spec /\ Fairness

\* runs with event-stream subscribers coming and going
SseSpecs == {plan(r, r, r, FALSE, 1) : r \in {Some([times |-> 1, backoff_ms |-> 100])}}
SseInit ==
    /\ Init
    /\ \/ entry = "run" /\ spec \in SseSpecs
       \/ entry = "engine" /\ ~ValidSpec(spec)

SseNext ==
    \/ Next
    \/ \E c \in Clients : addClient(c)
    \/ \E c \in Clients : removeClient(c)

SseSpec == SseInit /\ [][SseNext]_vars /\ Fairness

(* ---------------------- transform functions on their own --------------- *)
\* all lists of at most n elements of S
ListsOf(S, n) == UNION {[1..len -> S] : len \in 0..n}

\* left rows of a join: objects with or without a field named like a key, or null
JoinRows ==
    {Obj([f \in {"lat"} |-> Num(1)]),
     Obj([f \in {"lat", "eta_seconds"} |-> Num(2)]),
     Null}
\* right argument j of a join: an array of up to MaxRows + 1 values, or no array
RightValues(j) ==
    {Arr([r \in 1..m |-> Num(10 * j + r)]) : m \in 0..(MaxRows + 1)}
       \cup {Undef, Str("outputs.n2_eta")}
JoinCalls ==
    {[fn |-> "join_on_index", left |-> Arr(L), rightArrays |-> <<R1, R2>>,
      rightKeys |-> keys] :
        L \in ListsOf(JoinRows, MaxRows), R1 \in RightValues(1), R2 \in RightValues(2),
        keys \in {<<"eta_seconds", "temp_c">>, <<"temp_c", "temp_c">>}}

\* rows to rank: row k carries its position as id and a score that is a number,
\* not a number, or missing
Scores == {Num(0), Num(1), Num(0 - 1), Str("n/a"), Undef}
Row(k, score) ==
    IF score.t = "undefined" THEN Obj([f \in {"id"} |-> Num(k)])
    ELSE Obj([f \in {"id", "score"} |-> IF f = "id" THEN Num(k) ELSE score])
TopNCalls ==
    {[fn |-> "top_n", arr |-> Arr([k \in 1..Len(scores) |-> Row(k, scores[k])]),
      n |-> n, by |-> "score", desc |-> TRUE] :
        scores \in ListsOf(Scores, MaxList), n \in 0..(MaxList + 1)}

\* rows to assess: a named place with each of the four tags absent, empty, null
\* or set, or no row at all
TagValues(tag) ==
    CASE tag = "cuisine" -> {Undef, Str(""), Str("pizza")}
      [] tag = "opening_hours" -> {Undef, Null, Str("24/7")}
      [] tag = "outdoor_seating" -> {Undef, Str("YES"), Str("no")}
      [] tag = "wheelchair" -> {Str("yes"), Str("limited")}
Tags == {"cuisine", "opening_hours", "outdoor_seating", "wheelchair"}
Place(tags) ==
    LET set == {tag \in Tags : tags[tag].t # "undefined"}
    IN Obj([k \in set \cup {"name"} |-> IF k = "name" THEN Str("Luigi") ELSE tags[k]])
PlaceRows ==
    {Place(tags) : tags \in {t \in [Tags -> UNION {TagValues(tag) : tag \in Tags}] :
                                \A tag \in Tags : t[tag] \in TagValues(tag)}} \cup {Null}
QualityCalls ==
    {[fn |-> "compute_osm_quality", arr |-> Arr(rows), fields |-> fields] :
        rows \in ListsOf(PlaceRows, MaxRows),
        fields \in {Undef, Obj([tag \in Tags |-> Str(tag)])}}

\* inputs of the row normalizer: lists, objects of columns of any lengths, objects
\* with a value that is no list, null, undefined and scalars
Column(name, len) == Arr([r \in 1..len |-> Str(name \o ToString(r))])
Columnar ==
    {Obj([k \in names |-> Column(k, lens[k])]) :
        names \in SUBSET {"a", "b"}, lens \in [{"a", "b"} -> 0..(MaxRows + 1)]}
AsRowsCalls ==
    {[fn |-> "asRows", input |-> x] :
        x \in {Arr(rows) : rows \in ListsOf(JoinRows, MaxRows)}
                \cup Columnar
                \cup {Obj([k \in {"a", "b"} |-> IF k = "a" THEN Column(k, 1) ELSE v]) :
                         v \in {Null, Num(1), Obj([c \in {"a"} |-> Column(c, 1)])}}
                \cup {Null, Undef, Num(1), Str("rows")}}

\* scopes to interpolate {{join_coords(outputs.a.lat, outputs.a.lon)}} in: the
\* two columns are arrays of numbers and nulls, or missing, or no array; the
\* origin is given as _origin, as context.origin, or not at all
Coords(scale) ==
    {Arr(c) : c \in UNION {[1..len -> {Num(scale), Num(2 * scale), Null}] : len \in 0..MaxRows}}
        \cup {Undef, Str("37.87")}
Origins ==
    {[_origin |-> o, context |-> c] :
        o \in {Undef, Obj([k \in {"lat", "lon"} |-> Num(0)]), Obj([k \in {"lat"} |-> Num(0)])},
        c \in {EmptyObj} \cup {Obj([k \in {"origin"} |-> Str(s)]) : s \in {"5,7", "5, 7", "5"}}}
ScopeOf(lat, lon, origin) ==
    LET a == Obj([k \in {c \in {"lat", "lon"} : (IF c = "lat" THEN lat ELSE lon).t # "undefined"} |->
                    IF k = "lat" THEN lat ELSE lon])
    IN Obj([k \in {"outputs", "context"} \cup (IF origin._origin.t = "undefined" THEN {} ELSE {"_origin"}) |->
              CASE k = "outputs" -> Obj([n \in {"a"} |-> a])
                [] k = "context" -> origin.context
                [] k = "_origin" -> origin._origin])
InterpolateCalls ==
    {[fn |-> "interpolate",
      template |-> <<JoinCoords(DotPath(<<"outputs", "a", "lat">>),
                                DotPath(<<"outputs", "a", "lon">>))>>,
      scope |-> ScopeOf(lat, lon, origin)] :
        lat \in Coords(1), lon \in Coords(10), origin \in Origins}

\* series to correlate: numbers, null, and entries that are not numbers
Entries == {Num(1), Num(3), Null, Str("n/a")}
Series == {Arr(xs) : xs \in ListsOf(Entries, MaxList)} \cup {Undef}
CorrelationCalls ==
    {[fn |-> "correlation", xs |-> xs, ys |-> ys] : xs \in Series, ys \in Series}

\* scopes and expressions to resolve: values that are no strings, dotted paths
\* through present and absent values, JSONPath expressions and a malformed one
ResolveScopes ==
    {Obj([k \in {"outputs"} |-> outs]) :
        outs \in {EmptyObj, Null,
                  Obj([n \in {"a"} |-> Obj([c \in {"lat"} |-> Arr(<<Num(1), Num(2)>>)])]),
                  Obj([n \in {"a"} |-> Null])}}
        \cup {Null, Undef, EmptyObj}
ResolveExprs ==
    {Num(1), Null, Undef, Arr(<<>>), EmptyObj, MalformedPath}
        \cup {DotPath(p) : p \in {<<"outputs">>, <<"outputs", "a">>,
                                  <<"outputs", "a", "lat">>, <<"outputs", "b", "lat">>,
                                  <<"outputs", "a", "lat", "x", "y">>, <<"">>}}
        \cup {JsonPathExpr(jp) : jp \in {<<Key("outputs"), Key("a"), Key("lat"), Wild>>,
                                         <<Key("outputs"), Key("b"), Wild>>,
                                         <<Key("outputs"), Key("a"), Key("lat"), Idx(0)>>}}
ResolveCalls ==
    {[fn |-> "resolvePathLike", scope |-> s, expr |-> e] :
        s \in ResolveScopes, e \in ResolveExprs}

\* response bodies and maps of up to two columns: paths that match, paths that
\* match nothing, and malformed ones
MapPaths ==
    {JsonPathExpr(<<Key("elements"), Wild, Key("lat")>>),
     JsonPathExpr(<<Key("elements"), Idx(0), Key("name")>>),
     JsonPathExpr(<<Key("durations"), Idx(0), Wild>>),
     MalformedPath}
Maps ==
    {Obj(m) : m \in UNION {[cols -> MapPaths] : cols \in SUBSET {"lat", "eta_seconds"}}}
        \cup {Undef, Null}
ApplyMapCalls ==
    {[fn |-> "applyMap", json |-> body, map |-> m] :
        body \in {PlacesBody(n) : n \in 0..MaxRows} \cup {EtaBody(MaxRows), Null},
        m \in Maps}

\* templates that are plain text, name a value of the scope, or name a secret
Templates ==
    {<<Lit("v1")>>, <<Lit("at "), Hole(DotPath(<<"lat">>))>>,
     <<Lit("Bearer "), Hole(DotPath(<<"TOKEN">>))>>,
     <<Hole(DotPath(<<"compose", "q">>))>>}

\* process environments: without the secret, with it, and with a variable named
\* like a value of the scope
Envs ==
    {EmptyObj,
     Obj([k \in {"TOKEN"} |-> Str("s3cret")]),
     Obj([k \in {"TOKEN", "lat"} |-> Str("other")])}

\* nodes whose url, params, headers, body and compose are templates
CompileCalls ==
    {[fn |-> "compile",
      node |-> [url |-> url, params |-> [k \in {"p"} |-> param],
                headers |-> [k \in {"Authorization"} |-> header],
                body |-> [k \in {"data"} |-> body], compose |-> [k \in {"q"} |-> comp]],
      scope |-> Obj([k \in {"outputs", "lat"} |-> IF k = "lat" THEN Num(39) ELSE EmptyObj]),
      env |-> env] :
        url \in Templates, param \in Templates, header \in Templates, body \in Templates,
        comp \in Templates \ {<<Hole(DotPath(<<"compose", "q">>))>>}, env \in Envs}

FnInit ==
    /\ entry = "fn"
    /\ pc = "fn"
    /\ fnCall \in JoinCalls \cup TopNCalls \cup CorrelationCalls \cup QualityCalls
                   \cup AsRowsCalls \cup InterpolateCalls \cup ResolveCalls
                   \cup ApplyMapCalls \cup CompileCalls
    /\ fnResult = None
    /\ clients = NoClients
    /\ spec = CHOOSE sp \in BadSpecs : sp.nodesKind = "array"
    /\ useMocks = FALSE
    /\ i = 1
    /\ nodes = <<>>
    /\ edges = <<>>
    /\ outputs = EmptyObj
    /\ runLog = <<>>
    /\ errors = <<>>
    /\ calls = <<>>
    /\ events = <<>>
    /\ settleOrder = <<>>
    /\ resp = None
    /\ returned = None
    /\ specStatus = planned(spec)

Returns(result) ==
    /\ pc = "fn"
    /\ fnResult' = Some(result)
    /\ pc' = "fn_done"
    /\ UNCHANGED <<entry, clients, fnCall, spec, useMocks, i, nodes, edges, outputs,
                   runLog, errors, calls, events, settleOrder, resp, returned, specStatus>>

Call_join_on_index ==
    /\ fnCall.fn = "join_on_index"
    /\ Returns(t_join_on_index(fnCall.left, fnCall.rightArrays, fnCall.rightKeys))

Call_top_n ==
    /\ fnCall.fn = "top_n"
    /\ Returns(t_top_n(fnCall.arr, fnCall.n, fnCall.by, fnCall.desc))

Call_correlation ==
    /\ fnCall.fn = "correlation"
    /\ Returns(t_correlation(fnCall.xs, fnCall.ys))

Call_compute_osm_quality ==
    /\ fnCall.fn = "compute_osm_quality"
    /\ Returns(t_compute_osm_quality(fnCall.arr, fnCall.fields))

Call_asRows ==
    /\ fnCall.fn = "asRows"
    /\ Returns(asRows(fnCall.input))

Call_interpolate ==
    /\ fnCall.fn = "interpolate"
    /\ Returns(interpolate(fnCall.template, fnCall.scope))

Call_resolvePathLike ==
    /\ fnCall.fn = "resolvePathLike"
    /\ \E evaluation \in (IF fnCall.expr.t \in {"jsonpath", "badjsonpath"}
                           THEN Evaluations(fnCall.expr, fnCall.scope, TRUE)
                           ELSE {[threw |-> FALSE, value |-> Undef]}) :
          Returns(resolvePathLikeWith(fnCall.scope, fnCall.expr, evaluation))

Call_applyMap ==
    /\ fnCall.fn = "applyMap"
    /\ IF isObj(fnCall.map)
       THEN \E evaluation \in [DOMAIN fnCall.map.o ->
                                 UNION {Evaluations(path, fnCall.json, FALSE) :
                                          path \in MapPaths}] :
               /\ \A k \in DOMAIN fnCall.map.o :
                     evaluation[k] \in Evaluations(fnCall.map.o[k], fnCall.json, FALSE)
               /\ Returns(applyMapWith(fnCall.json, fnCall.map, evaluation))
       ELSE Returns(applyMapWith(fnCall.json, fnCall.map, <<>>))

Call_compile ==
    /\ fnCall.fn = "compile"
    /\ Returns(compile(fnCall.node, fnCall.scope, fnCall.env))

FnNext ==
    \/ Call_compile
    \/ Call_resolvePathLike
    \/ Call_applyMap
    \/ Call_asRows
    \/ Call_interpolate
    \/ Call_join_on_index
    \/ Call_top_n
    \/ Call_correlation
    \/ Call_compute_osm_quality

FnSpec == FnInit /\ [][FnNext]_vars

(* ================================ claims =============================== *)
Terminal == {"completed", "failed"}
NodeIndex(id) == CHOOSE k \in 1..N : spec.nodes[k].id = id
HasOutput(id) == id \in DOMAIN outputs.o
Contains(seq, x) == \E k \in 1..Len(seq) : seq[k] = x
Count(seq, Test(_)) == Cardinality({k \in 1..Len(seq) : Test(seq[k])})

\* C1: a node's status changes only pending -> running -> completed or
\* pending -> running -> failed; a completed or failed node never changes again.
C1_StatusPath ==
    [][\A k \in 1..Len(nodes) :
          \/ nodes'[k].status = nodes[k].status
          \/ <<nodes[k].status, nodes'[k].status>> \in
                {<<"pending", "running">>, <<"running", "completed">>,
                 <<"running", "failed">>}]_vars

C1_Witness ==
    /\ pc = "returned"
    /\ Len(nodes) = 4
    /\ nodes[1].status = "completed"
    /\ nodes[2].status = "failed"
    /\ nodes[4].status = "completed"

\* C2: nodes start in specification order: a node that has left pending has only
\* completed or failed nodes before it, so at most one node is running, also while
\* a fan-out has several HTTP calls in flight.
C2_OneRunningInOrder ==
    /\ \A k \in 1..Len(nodes) :
          nodes[k].status # "pending" =>
              \A h \in 1..(k - 1) : nodes[h].status \in Terminal
    /\ Cardinality({k \in 1..Len(nodes) : nodes[k].status = "running"}) <= 1

C2_Witness ==
    /\ pc = "fanout"
    /\ Cardinality({j \in 1..Len(calls) : calls[j].phase = "inflight"}) >= 2
    /\ nodes[3].status = "running"
    /\ nodes[4].status = "pending"

\* C3: whatever nodes fail, the run of a specification with a node list goes on:
\* every node is started and ends completed or failed, and the returned log has
\* one entry per node, in specification order.
C3_RunCompletes ==
    spec.nodesKind = "array" =>
    <>[](/\ pc \in {"returned", "responded"}
         /\ Len(runLog) = N
         /\ \A k \in 1..N :
               /\ nodes[k].status \in Terminal
               /\ runLog[k].node_id = spec.nodes[k].id
               /\ \E e \in 1..Len(events) :
                     events[e].type = "node_start" /\ events[e].nodeId = spec.nodes[k].id)

C3_Witness ==
    /\ pc = "responded"
    /\ Len(nodes) = 4
    /\ nodes[1].status = "failed"
    /\ nodes[2].status = "failed"
    /\ Len(runLog) = 4

\* the retry budget of a node, read off the specification
Times(nd) == IF nd.retry = None THEN 0 ELSE nd.retry[1].times
FailedId(id) == \E k \in 1..Len(nodes) : spec.nodes[k].id = id /\ nodes[k].status = "failed"
\* what a path under outputs.<id> contributes when node <id> failed
OrEmpty(path) ==
    IF FailedId(path.p[2]) THEN Arr(<<>>) ELSE resolvePathLike(OutputsRoot(outputs), path)
ReadsOutputOf(nd, id) ==
    \/ nd.args.left.p[2] = id
    \/ \E j \in 1..Len(nd.args.rightArrays.a) : nd.args.rightArrays.a[j].p[2] = id

\* C4: when a non-fan-out HTTP node has failed all its retries, the response status
\* is ok, errors has exactly one entry for that node, and a later join_on_index
\* node reading its output completes with that contribution taken as an empty array.
C4_FailedHttpThenJoin ==
    pc = "responded" =>
      \A k \in 1..N :
        (spec.nodes[k].type = "http" /\ ~IsFanout(spec.nodes[k])
           /\ nodes[k].status = "failed") =>
          /\ resp[1].status = "ok"
          /\ Cardinality({e \in 1..Len(errors) :
                            errors[e].node_id = spec.nodes[k].id}) = 1
          /\ \A t \in (k + 1)..N :
                (spec.nodes[t].fn = "join_on_index"
                   /\ IsArray(spec.nodes[t].args.rightArrays)
                   /\ ReadsOutputOf(spec.nodes[t], spec.nodes[k].id)) =>
                  /\ nodes[t].status = "completed"
                  /\ HasOutput(spec.nodes[t].id)
                  /\ outputs.o[spec.nodes[t].id] =
                        Arr(t_join_on_index(
                              OrEmpty(spec.nodes[t].args.left),
                              [j \in 1..Len(spec.nodes[t].args.rightArrays.a) |->
                                  OrEmpty(spec.nodes[t].args.rightArrays.a[j])],
                              spec.nodes[t].args.rightKeys))

C4_Witness ==
    /\ pc = "responded"
    /\ Len(nodes) = 4
    /\ nodes[1].status = "completed"
    /\ nodes[2].status = "failed"
    /\ nodes[4].status = "completed"
    /\ IsArray(Prop(outputs, "t1_join"))
    /\ Len(outputs.o["t1_join"].a) = 2
    /\ outputs.o["t1_join"].a[1].o["eta_seconds"] = Undef
    /\ Len(errors) = 1

\* C5: in live mode a call sends at most retry.times + 1 requests (1 without
\* retry); it returns at its first successful attempt, attempts being that
\* attempt's number, and fails only after retry.times + 1 failed attempts.
C5_RetryBudget ==
    (~useMocks /\ pc \in {"http", "fanout"}) =>
      \A j \in 1..Len(calls) :
        LET c == calls[j]
        IN /\ c.requests = c.attempts
           /\ c.requests <= Times(node) + 1
           /\ c.phase \in {"inflight", "fulfilled"} => c.failures = c.requests - 1
           /\ c.phase = "fulfilled" => c.attempts = c.failures + 1
           /\ c.phase = "backoff" => c.failures = c.requests /\ c.requests <= Times(node)
           /\ c.phase = "rejected" =>
                 c.failures = Times(node) + 1 /\ c.requests = Times(node) + 1

C5_Witness ==
    /\ ~useMocks
    /\ pc = "fanout"
    /\ Len(calls) = 2
    /\ calls[1].phase = "rejected" /\ calls[1].failures = 2
    /\ calls[1].reason = <<ErrorMessage("timeout")>>
    /\ calls[2].phase = "fulfilled" /\ calls[2].attempts = 2

\* C6: the error recorded for an HTTP node that used up its retries (error_message
\* and its entry in errors) carries the number of attempts made and the message of
\* the last attempt's error.
C6_ErrorCarriesAttempts ==
    \A k \in 1..Len(nodes) :
      (spec.nodes[k].type = "http" /\ ~IsFanout(spec.nodes[k])
         /\ nodes[k].status = "failed") =>
        /\ Contains(nodes[k].error_message, ToString(Times(spec.nodes[k]) + 1))
        /\ \E kind \in FailKinds : Contains(nodes[k].error_message, ErrorMessage(kind))
        /\ \E e \in 1..Len(errors) :
              /\ errors[e].node_id = spec.nodes[k].id
              /\ errors[e].error = nodes[k].error_message

\* the rows of the collection a fan-out node names with fanout.over
RowsOver(nd) ==
    asRows(OrElse(resolvePathLike(Scope(<<>>), nd.fanout[1].over), Arr(<<>>)))
CallForRow(call, row) == call.sub.lat = Prop(row, "lat")

\* C7 as stated: a fan-out dispatches exactly min(fanout.max, n) calls for the n
\* rows of the collection, call j for row j.
C7_MinOfMaxAndRows ==
    pc = "fanout" =>
      /\ Len(calls) = Min(node.fanout[1].max, Len(RowsOver(node)))
      /\ \A j \in 1..Len(calls) : CallForRow(calls[j], RowsOver(node)[j])

\* C7 as amended: with fanout.max >= 1 a fan-out dispatches exactly
\* min(fanout.max, n) calls, call j for row j; with fanout.max 0 (or absent) it
\* dispatches one call for each of the n rows.
C7_CapWhenMaxPositive ==
    pc = "fanout" =>
      /\ node.fanout[1].max >= 1 =>
            Len(calls) = Min(node.fanout[1].max, Len(RowsOver(node)))
      /\ node.fanout[1].max = 0 => Len(calls) = Len(RowsOver(node))
      /\ \A j \in 1..Len(calls) : CallForRow(calls[j], RowsOver(node)[j])

C7_Witness ==
    /\ pc = "fanout"
    /\ ~useMocks
    /\ node.fanout[1].max = 1
    /\ Len(RowsOver(node)) = 2
    /\ Len(calls) = 1
    /\ calls[1].sub.lat = Num(LatOf(1))
    /\ calls[1].requests = 1

Rejected(cs) == {j \in 1..Len(cs) : cs[j].phase = "rejected"}

\* C8: when some but not all calls of a fan-out fail, the node completes, every
\* merged column has one position per dispatched call, holds null at each failed
\* index and the call's own result elsewhere, and errors gains exactly one entry
\* per failed call, under the id nodeId[index].
C8_PartialFailure ==
    [][(pc = "fanout" /\ pc' = "node"
          /\ Rejected(calls) # {} /\ Rejected(calls) # 1..Len(calls)) =>
        LET out == outputs'.o[node.id]
        IN /\ nodes'[i].status = "completed"
           /\ DOMAIN out.o # {}
           /\ \A k \in DOMAIN out.o :
                 /\ Len(out.o[k].a) = Len(calls)
                 /\ \A j \in 1..Len(calls) :
                       out.o[k].a[j] =
                          IF j \in Rejected(calls) THEN Null
                          ELSE FirstOf(calls[j].data.o[k])
           /\ Len(errors') = Len(errors) + Cardinality(Rejected(calls))
           /\ \A j \in Rejected(calls) :
                 Cardinality({e \in 1..Len(errors') :
                    errors'[e].node_id = node.id \o "[" \o ToString(j - 1) \o "]"}) = 1
           /\ \A e \in 1..Len(errors) : errors'[e] = errors[e]]_vars

C8_Witness ==
    /\ HasOutput("n3_weather")
    /\ nodes[3].status = "completed"
    /\ Prop(outputs.o["n3_weather"], "temp_c") = Arr(<<Null, Str("temp@38")>>)
    /\ Contains(errors, [node_id |-> "n3_weather[0]",
                         error |-> <<ErrorMessage("network")>>])

\* C9: whatever the order in which the calls of a fan-out complete, position j of
\* every merged column holds the result of the call made for item j.
C9_MergedByIndex ==
    (~useMocks /\ HasOutput("n3_weather") /\ HasOutput("n1_overpass")) =>
      LET rows == asRows(outputs.o["n1_overpass"])
          out == outputs.o["n3_weather"]
      IN \A k \in DOMAIN out.o :
            \A j \in 1..Len(out.o[k].a) :
               out.o[k].a[j] \in {Null, Str("temp@" \o ToString(rows[j].o["lat"].n))}

C9_Witness ==
    /\ ~useMocks
    /\ HasOutput("n3_weather")
    /\ settleOrder = <<2, 1>>
    /\ Prop(outputs.o["n3_weather"], "temp_c") = Arr(<<Str("temp@39"), Str("temp@38")>>)

\* C10: when every call of a fan-out fails, the node is reported as failed: status
\* failed, a node_fail event, a log entry with status error.
C10_AllFailedFailsNode ==
    [][(pc = "fanout" /\ pc' = "node"
          /\ Len(calls) > 0 /\ Rejected(calls) = 1..Len(calls)) =>
        /\ nodes'[i].status = "failed"
        /\ events'[Len(events')].type = "node_fail"
        /\ events'[Len(events')].nodeId = node.id
        /\ runLog'[Len(runLog')].status = "error"]_vars

\* C11: a transform node whose fn is not a known transform, or whose transform
\* throws, ends failed: an entry in errors, a log entry with status error, a
\* node_fail event, and no output stored for it.
KnownFns == {"join_on_index", "compute_osm_quality", "compute_score", "top_n", "correlation"}
Throws(nd) == nd.fn = "join_on_index" /\ HasNoMap(Arg(nd, "rightArrays"))
C11_BadTransformFails ==
    [][(pc = "transform" /\ pc' = "node" /\ node.type = "transform"
          /\ (node.fn \notin KnownFns \/ Throws(node))) =>
        /\ nodes'[i].status = "failed"
        /\ Contains(errors', [node_id |-> node.id, error |-> nodes'[i].error_message])
        /\ runLog'[Len(runLog')].node_id = node.id
        /\ runLog'[Len(runLog')].status = "error"
        /\ events'[Len(events')].type = "node_fail"
        /\ events'[Len(events')].nodeId = node.id
        /\ node.id \notin DOMAIN outputs'.o]_vars

\* C12: a specification whose nodes is missing, not a list, or empty is rejected
\* before any node executes: executePipeline never returns a result for it, no
\* node_start event is emitted, and a run request ends with an error event and a
\* non-success response.
C12_InvalidSpecRejected ==
    ~ValidSpec(spec) =>
      /\ pc # "returned"
      /\ \A e \in 1..Len(events) : events[e].type # "node_start"
      /\ pc = "responded" =>
            /\ resp[1].code # 200
            /\ \E e \in 1..Len(events) : events[e].type = "error"

\* an edge of a snapshot carries the terminal status of its source node
Mirrors(state) ==
    \A k \in 1..Len(state.edges) :
       \A n \in 1..Len(state.nodes) :
          (spec.nodes[n].id = spec.edges[k].from /\ state.nodes[n] \in Terminal) =>
             state.edges[k] = state.nodes[n]

\* C13: from the moment its source node is completed (failed), an edge is
\* completed (failed) in every later snapshot and in the engine's state at the
\* end of the run.
C13_EdgeMirrorsSource ==
    /\ Mirrors(getCurrentState(nodes, edges))
    /\ \A e \in 1..Len(events) : Mirrors(events[e].state)

\* the node events of the run, oldest first
IsNodeEvent(e) == e.type \in {"node_start", "node_complete", "node_fail"}
NodeEvents == SelectSeq(events, IsNodeEvent)

\* C14: for every node exactly one node_start is published, followed by exactly
\* one node_complete or node_fail for the same node, both before the node_start of
\* the next node; node_complete iff the node ended completed, node_fail iff it
\* ended failed.
C14_NodeEventPairs ==
    LET ne == NodeEvents
    IN /\ Len(ne) <= 2 * N
       /\ \A k \in 1..Len(ne) :
             LET n == (k + 1) \div 2
             IN /\ ne[k].nodeId = spec.nodes[n].id
                /\ k % 2 = 1 => ne[k].type = "node_start"
                /\ k % 2 = 0 =>
                      /\ ne[k].type \in {"node_complete", "node_fail"}
                      /\ ne[k].type = "node_complete" <=> nodes[n].status = "completed"
                      /\ ne[k].type = "node_fail" <=> nodes[n].status = "failed"
       /\ \A n \in 1..Len(nodes) :
             /\ nodes[n].status \in Terminal <=> Len(ne) >= 2 * n
             /\ nodes[n].status = "running" <=> Len(ne) = 2 * n - 1
       /\ pc \in {"returned", "responded"} /\ ValidSpec(spec) => Len(ne) = 2 * N

C14_Witness ==
    /\ pc = "responded"
    /\ Len(NodeEvents) = 8
    /\ NodeEvents[3].type = "node_start" /\ NodeEvents[3].nodeId = "n2_eta"
    /\ NodeEvents[4].type = "node_fail" /\ NodeEvents[4].nodeId = "n2_eta"
    /\ NodeEvents[6].type = "node_complete" /\ NodeEvents[6].nodeId = "n3_weather"

\* position of an event type in the order of a run's events
Rank(type) ==
    CASE type = "planning_start" -> 1
      [] type = "planning_complete" -> 2
      [] type = "execution_start" -> 3
      [] type \in {"node_start", "node_complete", "node_fail"} -> 4
      [] type = "error" -> 5
      [] type = "pipeline_complete" -> 6
Places(type) == {e \in 1..Len(events) : events[e].type = type}

\* C15: the events of one run request come in the order planning_start,
\* planning_complete, execution_start, node events, pipeline_complete;
\* pipeline_complete is emitted exactly once per run, and only when every node of
\* the specification is completed or failed.
C15_RunEventOrder ==
    entry = "run" =>
      /\ \A e \in 1..(Len(events) - 1) : Rank(events[e].type) <= Rank(events[e + 1].type)
      /\ \A type \in {"planning_start", "planning_complete", "execution_start",
                      "pipeline_complete"} : Cardinality(Places(type)) <= 1
      /\ Places("execution_start") # {} => Places("planning_complete") # {}
      /\ NodeEvents # <<>> =>
            SubSeq([e \in 1..Len(events) |-> events[e].type], 1, 3) =
               <<"planning_start", "planning_complete", "execution_start">>
      /\ Places("pipeline_complete") # {} =>
            /\ Len(nodes) = N
            /\ \A n \in 1..N : nodes[n].status \in Terminal
            /\ Places("planning_start") # {}
      /\ pc = "responded" <=> Places("pipeline_complete") = {Len(events)}

C15_Witness ==
    /\ entry = "run"
    /\ pc = "responded"
    /\ Len(events) = 12
    /\ events[3].type = "execution_start"
    /\ events[4].type = "node_start"
    /\ events[11].type = "node_complete"
    /\ events[12].type = "pipeline_complete"
    /\ nodes[2].status = "failed"

\* a step of the run, whoever is subscribed to it
RunStep ==
    \/ ReceiveRun \/ Planned \/ EnterPipeline \/ StartNode
    \/ \E j \in 1..Len(calls) :
          \/ CallDelayDone(j) \/ MockReturn(j) \/ AttemptSucceeds(j)
          \/ AttemptFails(j) \/ BackoffDone(j)
    \/ FinishHttp \/ FanoutMerge \/ RunTransform \/ Return \/ Respond

\* C16: a subscriber leaving at any point changes only what that subscriber
\* receives: every change of the run's state, log, errors and outputs is a step the
\* run takes by itself, and the run still brings every node to completed or failed
\* and answers.
C16_DisconnectKeepsRun ==
    /\ [][RunStep]_run
    /\ (entry = "run" /\ ValidSpec(spec)) =>
          <>[](/\ pc = "responded"
               /\ resp[1].code = 200
               /\ Len(runLog) = N
               /\ \A n \in 1..N : nodes[n].status \in Terminal)

C16_Witness ==
    /\ pc = "responded"
    /\ Len(runLog) = 4
    /\ clients["c1"].state = "closed"
    /\ clients["c1"].received = <<"hello", "node_start", "node_complete", "node_start">>
    /\ outputs.o["t1_join"] # Arr(<<>>)

IsHttp(id) == \E k \in 1..N : spec.nodes[k].id = id /\ spec.nodes[k].type = "http"

\* C17: with useMocks no HTTP call, single or inside a fan-out, sends a request:
\* each returns the canned payload with attempts 1 and fallbackUsed false, so no
\* HTTP node retries or fails.
C17_MocksStayOffline ==
    useMocks =>
      /\ \A j \in 1..Len(calls) :
            /\ calls[j].requests = 0
            /\ calls[j].failures = 0
            /\ calls[j].phase \in {"mock", "fulfilled"}
            /\ calls[j].phase = "fulfilled" =>
                  /\ calls[j].attempts = 1
                  /\ ~calls[j].fallbackUsed
                  /\ calls[j].data = mockFor(node)
      /\ settleOrder = <<>>
      /\ \A k \in 1..Len(nodes) : spec.nodes[k].type = "http" => nodes[k].status # "failed"
      /\ \A e \in 1..Len(runLog) :
            IsHttp(runLog[e].node_id) => runLog[e].status = "ok" /\ runLog[e].attempts = 1
      /\ \A e \in 1..Len(errors) : errors[e].node_id \in {"t_badjoin"}

C17_Witness ==
    /\ useMocks
    /\ pc = "responded"
    /\ Len(nodes) = 4
    /\ \A k \in 1..3 : nodes[k].status = "completed"
    /\ outputs.o["n1_overpass"] = mockFor(spec.nodes[1])
    /\ outputs.o["n3_weather"].o["temp_c"] = Arr(<<RandomReading, RandomReading>>)
    /\ spec.nodes[1].retry # None


\* ---- C18 ----
JoinReturned == pc = "fn_done" /\ fnCall.fn = "join_on_index"
\* element i of right argument R, undefined past its end or when R is not an array
RightAt(R, r) == IF IsArray(R) /\ r <= Len(R.a) THEN R.a[r] ELSE Undef
\* the result has one row per left row, and each row keeps the fields of its left
\* row that are not keys and has no field besides those and the keys
JoinKeepsRows ==
    LET L == fnCall.left.a
        keys == fnCall.rightKeys
        rows == fnResult[1]
        keySet == {keys[j] : j \in 1..Len(keys)}
    IN /\ Len(rows) = Len(L)
       /\ \A r \in 1..Len(L) :
            /\ rows[r].t = "obj"
            /\ DOMAIN rows[r].o = DOMAIN Spread(L[r]) \cup keySet
            /\ \A f \in DOMAIN Spread(L[r]) \ keySet : rows[r].o[f] = L[r].o[f]

\* C18 (as stated): join_on_index(L, R, keys) returns len(L) rows, row i keeps
\* every field of L[i] that is not a key, and for every j the field keys[j] of
\* row i equals R[j][i], undefined when i is past the end of R[j] or R[j] is not
\* an array.
C18_JoinEveryKey ==
    JoinReturned =>
        /\ JoinKeepsRows
        /\ \A r \in 1..Len(fnResult[1]) : \A j \in 1..Len(fnCall.rightKeys) :
              Prop(fnResult[1][r], fnCall.rightKeys[j]) = RightAt(fnCall.rightArrays[j], r)

\* C18 (amended): join_on_index(L, R, keys) returns len(L) rows, row i keeps
\* every field of L[i] that is not a key, and the field keys[j] of row i equals
\* R[h][i] for the last h with keys[h] = keys[j] (undefined when i is past the end
\* of R[h] or R[h] is not an array): of two right arrays under the same key the
\* later one wins.
C18_JoinLastKeyWins ==
    JoinReturned =>
        /\ JoinKeepsRows
        /\ \A r \in 1..Len(fnResult[1]) : \A j \in 1..Len(fnCall.rightKeys) :
              LET keys == fnCall.rightKeys
                  h == CHOOSE h \in j..Len(keys) :
                          keys[h] = keys[j] /\ \A g \in j..Len(keys) : keys[g] = keys[j] => g <= h
              IN Prop(fnResult[1][r], keys[j]) = RightAt(fnCall.rightArrays[h], r)

\* a join of two rows under one repeated key, the first right array covering both
\* rows and the second only the first row
C18_Witness ==
    /\ JoinReturned
    /\ Len(fnCall.left.a) = 2
    /\ fnCall.rightKeys[1] = fnCall.rightKeys[2]
    /\ IsArray(fnCall.rightArrays[1]) /\ Len(fnCall.rightArrays[1].a) = 2
    /\ IsArray(fnCall.rightArrays[2]) /\ Len(fnCall.rightArrays[2].a) = 1
    /\ Prop(fnResult[1][1], fnCall.rightKeys[1]) = fnCall.rightArrays[2].a[1]
    /\ Prop(fnResult[1][2], fnCall.rightKeys[1]) = Undef

\* ---- C19 ----
TopNReturned == pc = "fn_done" /\ fnCall.fn = "top_n"
\* the value a row is ranked by: its field when that is a number, else 0
ValueOf(row) ==
    IF Prop(row, fnCall.by).t = "num" THEN Prop(row, fnCall.by).n ELSE 0
\* the position of a row in the list given to top_n
IdOf(row) == row.o["id"].n

\* C19: top_n(rows, {n, by, desc=true}) with n >= 0 returns min(n, len(rows)) rows
\* of the input, in descending order of the numeric value of field by (0 when the
\* field is missing or not a number); no excluded row has a larger value than a
\* returned one; rows of equal value come in their original order; and the input
\* list is the same after the call.
C19_TopNStableDescending ==
    (TopNReturned /\ fnCall.desc /\ fnCall.n >= 0) =>
        LET rows == fnCall.arr.a
            result == fnResult[1].result
            taken == {IdOf(result[k]) : k \in 1..Len(result)}
        IN /\ Len(result) = Min(fnCall.n, Len(rows))
           /\ \A k \in 1..Len(result) :
                IdOf(result[k]) \in 1..Len(rows) /\ result[k] = rows[IdOf(result[k])]
           /\ Cardinality(taken) = Len(result)
           /\ \A k, l \in 1..Len(result) : k < l =>
                /\ ValueOf(result[k]) >= ValueOf(result[l])
                /\ ValueOf(result[k]) = ValueOf(result[l]) => IdOf(result[k]) < IdOf(result[l])
           /\ \A r \in (1..Len(rows)) \ taken : \A k \in 1..Len(result) :
                ValueOf(result[k]) >= ValueOf(rows[r])
           /\ fnResult[1].rows = rows

\* the top 2 of three rows whose scores are "n/a", 1 and 0: the row with 1, then
\* the first of the two rows that count as 0
C19_Witness ==
    /\ TopNReturned
    /\ fnCall.n = 2
    /\ Len(fnCall.arr.a) = 3
    /\ Prop(fnCall.arr.a[1], "score").t = "str"
    /\ ValueOf(fnCall.arr.a[3]) = 0
    /\ Len(fnResult[1].result) = 2
    /\ IdOf(fnResult[1].result[1]) = 2
    /\ IdOf(fnResult[1].result[2]) = 1

\* ---- C20 ----
CorrelationReturned == pc = "fn_done" /\ fnCall.fn = "correlation"
\* index k of a series holds a number
NumericAt(series, k) ==
    IsArray(series) /\ k \in 1..Len(series.a) /\ Number(series.a[k]).t # "nan"

\* C20: correlation(xs, ys) pairs the series by original index: every pair of
\* terms it uses is (xs[i], ys[i]) for one index i at which both entries are
\* numbers, so an entry that is not a number at index i of either series takes
\* index i out of both.
C20_PairsByOriginalIndex ==
    CorrelationReturned =>
        \A k \in 1..Len(fnResult[1].pairs) :
            LET p == fnResult[1].pairs[k]
            IN /\ p[1] = p[2]
               /\ NumericAt(fnCall.xs, p[1])
               /\ NumericAt(fnCall.ys, p[1])

\* ---- C21 ----
\* the entries of a series at the indices the result was computed from
UsedValues(series, side) ==
    {Number(series.a[fnResult[1].pairs[k][side]]).n : k \in 1..Len(fnResult[1].pairs)}

\* C21: correlation(xs, ys) is exactly 0 when fewer than 2 pairs are used, when
\* either argument is not an array, and when the values of either series over the
\* pairs used are all equal (zero variance); and correlation(xs, ys) equals
\* correlation(ys, xs).
C21_ZeroCasesAndSymmetry ==
    CorrelationReturned =>
        /\ Len(fnResult[1].pairs) < 2 => fnResult[1].r = Zero
        /\ (~IsArray(fnCall.xs) \/ ~IsArray(fnCall.ys)) => fnResult[1].r = Zero
        /\ (Len(fnResult[1].pairs) >= 2
              /\ (Cardinality(UsedValues(fnCall.xs, 1)) = 1
                    \/ Cardinality(UsedValues(fnCall.ys, 2)) = 1)) => fnResult[1].r = Zero
        /\ fnResult[1].r = t_correlation(fnCall.ys, fnCall.xs).r

\* ---- C22 ----
QualityReturned == pc = "fn_done" /\ fnCall.fn = "compute_osm_quality"
\* the tags of a row that count: cuisine and opening hours when present with a
\* non-empty value, outdoor seating and wheelchair when "yes" in any letter case
Counted(row) ==
    {tag \in Tags :
        LET v == Field(row, tag)
        IN IF tag \in {"cuisine", "opening_hours"}
           THEN ~IsNullish(v) /\ v # Str("")
           ELSE v.t = "str" /\ v.s \in {"yes", "Yes", "YES"}}
Weight(tag) ==
    CASE tag = "cuisine" -> 6 [] tag = "opening_hours" -> 4 [] OTHER -> 2
RECURSIVE SumWeights(_)
SumWeights(tags) ==
    IF tags = {} THEN 0
    ELSE LET tag == CHOOSE x \in tags : TRUE IN Weight(tag) + SumWeights(tags \ {tag})

\* C22: compute_osm_quality returns one row per input row; its quality is 3.5 plus
\* 0.6 for a cuisine, 0.4 for opening hours, 0.2 for outdoor seating "yes" and
\* 0.2 for wheelchair "yes" (any letter case), so it lies in [3.5, 5.0]; a row
\* whose counted tags include those of another row has at least its quality; and
\* every other field of the row is returned as it was.
C22_QualityHeuristic ==
    QualityReturned =>
        LET rows == fnCall.arr.a
            out == fnResult[1]
            quality(r) == out[r].o["quality"].tenths
        IN /\ Len(out) = Len(rows)
           /\ \A r \in 1..Len(rows) :
                /\ quality(r) = 35 + SumWeights(Counted(rows[r]))
                /\ quality(r) >= 35 /\ quality(r) <= 50
                /\ DOMAIN out[r].o \ {"quality"} = DOMAIN Spread(rows[r]) \ {"quality"}
                /\ \A k \in DOMAIN out[r].o \ {"quality"} : out[r].o[k] = rows[r].o[k]
           /\ \A r, s \in 1..Len(rows) :
                Counted(rows[r]) \subseteq Counted(rows[s]) => quality(r) <= quality(s)

\* a place with no counted tag next to one with all four, its outdoor seating
\* spelled "YES": qualities 3.5 and 4.9
C22_Witness ==
    /\ QualityReturned
    /\ Len(fnCall.arr.a) = 2
    /\ isObj(fnCall.arr.a[1])
    /\ Counted(fnCall.arr.a[1]) = {}
    /\ Counted(fnCall.arr.a[2]) = Tags
    /\ fnResult[1][1].o["quality"] = Dec(35)
    /\ fnResult[1][2].o["quality"] = Dec(49)
    /\ fnResult[1][2].o["outdoor_seating"] = Str("YES")

\* ---- C23 ----
AsRowsReturned == pc = "fn_done" /\ fnCall.fn = "asRows"
\* an object with at least one column, every value of which is a list
IsColumnar(x) == isObj(x) /\ DOMAIN x.o # {} /\ \A k \in DOMAIN x.o : IsArray(x.o[k])
ShortestColumn(x) ==
    CHOOSE n \in 0..(MaxRows + 1) :
        /\ \E k \in DOMAIN x.o : Len(x.o[k].a) = n
        /\ \A k \in DOMAIN x.o : Len(x.o[k].a) >= n

\* C23: asRows returns a list as it is; for an object of columns it returns one
\* row per index, keyed by the column names, as many as the shortest column has
\* entries; for every other input it returns the empty list; and applying it to
\* its own result changes nothing.
C23_AsRowsNormalises ==
    AsRowsReturned =>
        LET x == fnCall.input
            out == fnResult[1]
        IN /\ IsArray(x) => out = x.a
           /\ IsColumnar(x) =>
                /\ Len(out) = ShortestColumn(x)
                /\ \A r \in 1..Len(out) :
                      /\ isObj(out[r])
                      /\ DOMAIN out[r].o = DOMAIN x.o
                      /\ \A k \in DOMAIN x.o : out[r].o[k] = x.o[k].a[r]
           /\ (~IsArray(x) /\ ~IsColumnar(x)) => out = <<>>
           /\ asRows(Arr(out)) = out

\* columns a of 3 entries and b of 2: two rows, each with an a and a b
C23_Witness ==
    /\ AsRowsReturned
    /\ IsColumnar(fnCall.input)
    /\ DOMAIN fnCall.input.o = {"a", "b"}
    /\ Len(fnCall.input.o["a"].a) = 3
    /\ Len(fnCall.input.o["b"].a) = 2
    /\ Len(fnResult[1]) = 2
    /\ fnResult[1][2] = Obj([k \in {"a", "b"} |-> Str(k \o "2")])

\* ---- C24 ----
InterpolateReturned == pc = "fn_done" /\ fnCall.fn = "interpolate"
LatColumn == Prop(Prop(Prop(fnCall.scope, "outputs"), "a"), "lat")
LonColumn == Prop(Prop(Prop(fnCall.scope, "outputs"), "a"), "lon")
\* the scope carries an explicit origin {lat, lon}
HasOrigin ==
    /\ isObj(Prop(fnCall.scope, "_origin"))
    /\ {"lat", "lon"} \subseteq DOMAIN fnCall.scope.o["_origin"].o
\* a coordinate as it is written into a template
Text(v) == IF v.t = "num" THEN ToString(v.n) ELSE "null"
PairAt(k) == Text(LonColumn.a[k]) \o "," \o Text(LatColumn.a[k])
OriginPair ==
    Text(fnCall.scope.o["_origin"].o["lon"]) \o "," \o Text(fnCall.scope.o["_origin"].o["lat"])
\* the indices up to the shorter array's length
Indices == [k \in 1..Min(Len(LatColumn.a), Len(LonColumn.a)) |-> k]
PairsOf(indices) == [k \in 1..Len(indices) |-> PairAt(indices[k])]

\* C24: {{join_coords(latPath, lonPath)}} over two arrays, with an
\* explicit origin, is the origin's "lon,lat" followed by one "lon,lat" pair for
\* every index up to the shorter array's length, in order, joined with ';'; and
\* it is the empty string when either path does not resolve to an array.
C24_PairPerIndex ==
    InterpolateReturned =>
        IF IsArray(LatColumn) /\ IsArray(LonColumn)
        THEN HasOrigin => fnResult[1] = Join(<<OriginPair>> \o PairsOf(Indices), ";")
        ELSE fnResult[1] = ""


(* ------------------------------- C25 ------------------------------------ *)
\* the nodes of the run that are top_n transforms and completed
RankingDone ==
    {k \in 1..N : spec.nodes[k].type = "transform" /\ spec.nodes[k].fn = "top_n"
                    /\ spec.nodes[k].id \in DOMAIN outputs.o}

\* C25: the final ranked_list of a run is the output of whichever transform node
\* ran top_n, whatever its id, and is empty only when no top_n transform
\* completed or its output is empty
C25_RankedListOfTopN ==
    returned # None =>
        LET ranked == Prop(returned[1].outputs, "ranked_list")
        IN /\ \A k \in RankingDone : ranked = outputs.o[spec.nodes[k].id]
           /\ RankingDone = {} => ranked = Arr(<<>>)

(* ------------------------------- C26 ------------------------------------ *)
\* the number of joined rows in the output store
JoinedCount == IF IsArray(Prop(outputs, "t1_join")) THEN Len(outputs.o["t1_join"].a) ELSE 0

\* the correlation coefficient in the output store, with two decimals
CoefficientText == IF "t4_corr" \in DOMAIN outputs.o THEN toFixed2(outputs.o["t4_corr"]) ELSE "0.00"

\* C26: the response of every run in which the engine returned has a summary:
\* "No results." when the ranked list is empty, a text quoting the joined row
\* count and the correlation coefficient otherwise; and its status is ok
\* however many nodes failed
C26_SummaryAlways ==
    (resp # None /\ returned # None) =>
        /\ resp[1].status = "ok"
        /\ resp[1].summary # None
        /\ resp[1].summary[1] =
             IF resp[1].ranked_list = <<>>
             THEN "No results."
             ELSE "Found " \o ToString(JoinedCount)
                    \o " restaurants. Quality vs ETA correlation r=" \o CoefficientText
                    \o ". Showing top " \o ToString(Len(resp[1].ranked_list)) \o "."

\* a run with a failed node answered with rows and a summary that quotes them
C26_Witness ==
    /\ resp # None /\ returned # None
    /\ \E k \in 1..Len(resp[1].log) : resp[1].log[k].status = "error"
    /\ resp[1].ranked_list # <<>>
    /\ resp[1].summary = Some("Found 1 restaurants. Quality vs ETA correlation r=0.00. Showing top 1.")

(* ------------------------------- C27 ------------------------------------ *)
\* backoff_ms of the node that is running, 100 when the node has none
BackoffOf(nd) ==
    IF nd.retry = None THEN 100
    ELSE IF "backoff_ms" \in DOMAIN nd.retry[1] THEN nd.retry[1].backoff_ms ELSE 100

\* C27: between failed attempt k and attempt k+1 of an HTTP call the runner
\* waits backoff_ms * 2^(k-1), with backoff_ms 100 by default, so that
\* successive waits double; a call has one wait less than attempts, and no
\* wait follows its final failed attempt
C27_BackoffDoubles ==
    \A j \in 1..Len(calls) :
        LET call == calls[j]
        IN call.phase \in {"inflight", "backoff", "fulfilled", "rejected"} =>
             /\ \A k \in 1..Len(call.waits) :
                  /\ call.waits[k] = BackoffOf(spec.nodes[i]) * 2 ^ (k - 1)
                  /\ k > 1 => call.waits[k] = 2 * call.waits[k - 1]
             /\ call.phase = "backoff" => Len(call.waits) = call.attempts
             /\ call.phase # "backoff" => Len(call.waits) = call.attempts - 1
             /\ call.phase = "rejected" => Len(call.waits) = call.failures - 1

\* a call that gave up after waiting 100 ms and then 200 ms
C27_Witness ==
    \E j \in 1..Len(calls) :
        /\ calls[j].phase = "rejected"
        /\ Len(calls[j].waits) >= 2
        /\ calls[j].waits[1] = 100
        /\ calls[j].waits[2] = 200

(* ------------------------------- C28 ------------------------------------ *)
\* some call of the running fan-out has not settled yet
FanoutInFlight == pc = "fanout" /\ \E j \in 1..Len(calls) : ~Settled(calls[j])

\* C28: while the calls of a fan-out are in flight, retries and backoff waits
\* included, none of them writes the output store (and with it the shared
\* scope), the errors list, the log or a node or edge status; these are written
\* by the engine's loop once every call of the fan-out has settled
C28_CallsWriteNothingShared ==
    [][FanoutInFlight => UNCHANGED <<outputs, errors, runLog, nodes, edges>>]_vars

\* a fan-out with one call rejected and another waiting to retry, and nothing
\* written for the node yet
C28_Witness ==
    /\ pc = "fanout"
    /\ \E j, k \in 1..Len(calls) :
          /\ calls[j].phase = "rejected"
          /\ calls[k].phase = "backoff"
    /\ errors = <<>>
    /\ node.id \notin DOMAIN outputs.o
    /\ nodes[i].status = "running"

(* ------------------------------- C29 ------------------------------------ *)
\* the ids of the nodes that have completed
CompletedIds == {spec.nodes[k].id : k \in {h \in 1..Len(nodes) : nodes[h].status = "completed"}}

\* the key is new in this step, and this step completes its node
WrittenOnCompletion(key) ==
    \E k \in 1..Len(nodes) :
        /\ spec.nodes[k].id = key
        /\ nodes[k].status = "running"
        /\ nodes'[k].status = "completed"

\* C29: the output store is empty when a run starts and append-only during it:
\* a node's key is written once, in the step that completes the node, and is
\* never overwritten or removed; a node that failed or has not finished has no
\* entry, so that reading it yields undefined
C29_OutputStoreAppendOnly ==
    /\ [](pc \in {"request", "planning", "call"} => outputs = EmptyObj)
    /\ [](pc \in {"node", "http", "fanout", "transform", "returned", "responded"}
            => /\ DOMAIN outputs.o = CompletedIds
               /\ \A k \in 1..Len(nodes) :
                    nodes[k].status # "completed" => Prop(outputs, spec.nodes[k].id) = Undef)
    /\ [][/\ \A key \in DOMAIN outputs.o :
               key \in DOMAIN outputs'.o /\ outputs'.o[key] = outputs.o[key]
          /\ \A key \in DOMAIN outputs'.o \ DOMAIN outputs.o : WrittenOnCompletion(key)]_vars

\* a run in which one node failed and a later one completed, with an entry for
\* the second only
C29_Witness ==
    /\ pc = "node"
    /\ \E k, h \in 1..Len(nodes) :
          /\ k < h
          /\ nodes[k].status = "failed"
          /\ nodes[h].status = "completed"
          /\ spec.nodes[k].id \notin DOMAIN outputs.o
          /\ spec.nodes[h].id \in DOMAIN outputs.o

(* ------------------------------- C30 ------------------------------------ *)
\* the snapshot of an event about node k: every node and edge is in it, the
\* nodes before k are terminal, those after it pending, node k is as the event says
ConsistentSnapshot(e, k) ==
    /\ Len(e.state.nodes) = N
    /\ Len(e.state.edges) = Len(spec.edges)
    /\ \A h \in 1..(k - 1) : e.state.nodes[h] \in {"completed", "failed"}
    /\ \A h \in (k + 1)..N : e.state.nodes[h] = "pending"
    /\ IF e.type = "node_start"
       THEN /\ e.state.nodes[k] = "running"
            /\ \A g \in 1..Len(spec.edges) :
                 spec.edges[g].to = e.nodeId => e.state.edges[g] = "running"
       ELSE e.state.nodes[k] \in {"completed", "failed"}

LogEntryOf(k) == runLog[CHOOSE h \in 1..Len(runLog) : runLog[h].node_id = spec.nodes[k].id]

\* C31: in the snapshot carried by pipeline_complete after the engine
\* returned, no node is pending or running: a node is completed if its log
\* entry has status ok and failed if it has status error, and each edge has
\* the status of its source node
C31_FinalSnapshotTerminal ==
    returned # None =>
        \A n \in 1..Len(events) :
            events[n].type = "pipeline_complete" =>
                LET state == events[n].state
                IN /\ Len(state.nodes) = N
                   /\ Len(state.edges) = Len(spec.edges)
                   /\ \A k \in 1..N :
                        /\ state.nodes[k] \in Terminal
                        /\ \E h \in 1..Len(runLog) : runLog[h].node_id = spec.nodes[k].id
                        /\ LogEntryOf(k).status = "ok" => state.nodes[k] = "completed"
                        /\ LogEntryOf(k).status = "error" => state.nodes[k] = "failed"
                   /\ \A g \in 1..Len(spec.edges) :
                        state.edges[g] = state.nodes[NodeIndex(spec.edges[g].from)]

\* the final snapshot of a run in which one node failed and another completed,
\* with an edge of each status
C31_Witness ==
    /\ returned # None
    /\ \E n \in 1..Len(events) :
          /\ events[n].type = "pipeline_complete"
          /\ \E k, h \in 1..Len(events[n].state.nodes) :
                events[n].state.nodes[k] = "failed" /\ events[n].state.nodes[h] = "completed"
          /\ \E g, f \in 1..Len(events[n].state.edges) :
                events[n].state.edges[g] = "failed" /\ events[n].state.edges[f] = "completed"

(* ------------------------------- C32 ------------------------------------ *)
ResolveReturned == fnCall.fn = "resolvePathLike" /\ fnResult # None

\* a proper prefix of the dotted path resolves to null or undefined
AbsentOnTheWay(scope, parts) ==
    \E len \in 0..(Len(parts) - 1) : IsNullish(Walk(scope, SubSeq(parts, 1, len)))

\* C32: the path resolver never throws: an expression that is no string is
\* returned unchanged, a dotted path whose intermediate value is absent or
\* null resolves to undefined, and a malformed JSON-path expression resolves
\* to undefined
C32_ResolverFailsSoft ==
    ResolveReturned =>
        /\ ~fnResult[1].threw
        /\ fnCall.expr.t \notin {"path", "jsonpath", "badjsonpath"}
             => fnResult[1].value = fnCall.expr
        /\ (fnCall.expr.t = "path" /\ AbsentOnTheWay(fnCall.scope, fnCall.expr.p))
             => fnResult[1].value = Undef
        /\ fnCall.expr.t = "badjsonpath" => fnResult[1].value = Undef

(* ------------------------------- C33 ------------------------------------ *)
ApplyMapReturned == fnCall.fn = "applyMap" /\ fnResult # None /\ isObj(fnCall.map)

\* the path of a column cannot be evaluated, or matches nothing in the body
FailsOrMatchesNothing(path, body) ==
    \/ path.t = "badjsonpath"
    \/ IsNullish(body)
    \/ JPMatches(body, path.jp) = <<>>

AttemptsMade(call) == IF useMocks THEN 1 ELSE call.requests

\* the attempts made for the node that is finishing
NodeAttempts ==
    CASE pc = "http" -> AttemptsMade(calls[1])
      [] pc = "fanout" ->
           CHOOSE m \in {AttemptsMade(calls[j]) : j \in 1..Len(calls)} :
               \A j \in 1..Len(calls) : AttemptsMade(calls[j]) <= m
      [] OTHER -> 1

\* C34: the attempts value of a node's log entry is the number of HTTP attempts
\* made for the node (for a fan-out the maximum over its calls, for a transform
\* 1), when the node completes and when it fails after its retries
C34_LogCountsAttempts ==
    [][(Len(runLog') = Len(runLog) + 1 /\ ~(pc = "fanout" /\ calls = <<>>))
          => runLog'[Len(runLog')].attempts = NodeAttempts]_vars

(* ------------------------------- C35 ------------------------------------ *)
\* the run of the planner's quality and correlation nodes is over and every
\* node completed
CorrelationRan ==
    /\ returned # None
    /\ spec \in CorrSpecs
    /\ \A k \in 1..Len(nodes) : nodes[k].status = "completed"

\* what the correlation node resolves its two arguments to
CorrelationX == resolvePathLike(OutputsRoot(outputs), Arg(t4_corr, "xFrom"))
CorrelationY == resolvePathLike(OutputsRoot(outputs), Arg(t4_corr, "yFrom"))

\* C35: in a run of the planner's specification in which every node completes,
\* the correlation node receives as x the quality values of the rows of the
\* quality transform, one per joined row, so that pearson_r is computed over
\* as many pairs as the correlation record's n (the joined row count) whenever
\* there is an ETA for every row
C35_CorrelationOverQualities ==
    CorrelationRan =>
        LET rows == outputs.o["t_osm_quality"].a
            joined == Len(outputs.o["t1_join"].a)
        IN /\ IsArray(CorrelationX)
           /\ Len(CorrelationX.a) = joined
           /\ \A r \in 1..Len(rows) : CorrelationX.a[r] = rows[r].o["quality"]
           /\ (IsArray(CorrelationY) /\ Len(NumericIndices(CorrelationY)) = joined)
                => Min(Len(CorrelationX.a), Len(NumericIndices(CorrelationY))) = joined

(* ------------------------------- C36 ------------------------------------ *)
CompileReturned == fnCall.fn = "compile" /\ fnResult # None

\* what the same call compiles in a process with environment env
CompiledUnder(env) == compile(fnCall.node, fnCall.scope, env)

\* C36: process-level secret values can influence only the compiled headers of
\* an HTTP call: in two runs that differ only in the process environment the
\* compiled url, params, body and compose values of every call are the same
C36_SecretsOnlyInHeaders ==
    CompileReturned =>
        \A env \in Envs :
            /\ fnResult[1].url = CompiledUnder(env).url
            /\ fnResult[1].params = CompiledUnder(env).params
            /\ fnResult[1].body = CompiledUnder(env).body
            /\ fnResult[1].compose = CompiledUnder(env).compose

\* a call whose templates all name the secret: it is in the header and nowhere else
C36_Witness ==
    /\ CompileReturned
    /\ fnCall.env = Obj([k \in {"TOKEN"} |-> Str("s3cret")])
    /\ fnResult[1].headers["Authorization"] = "Bearer s3cret"
    /\ fnResult[1].url = "Bearer "
    /\ fnResult[1].params["p"] = "Bearer "
    /\ fnResult[1].body["data"] = "Bearer "
    /\ fnResult[1].compose = Obj([k \in {"q"} |-> Str("Bearer ")])
    /\ fnResult[1].headers # CompiledUnder(EmptyObj).headers

\* C37: executePipeline works on its own copies: no step of a run changes the
\* status of a node or of an edge of the specification object that was passed in,
\* nor the specification's node list and edge list (their length and order), so
\* that after the run, whatever nodes failed, they are what they were before.
C37_SpecificationUntouched ==
    [][/\ specStatus' = specStatus
       /\ spec'.nodes = spec.nodes
       /\ spec'.edges = spec.edges]_vars

\* a run has returned with a failed node, the engine's clones carry the final
\* statuses and the specification's own node and edge statuses are still pending
C37_Witness ==
    /\ returned # None
    /\ \E k \in 1..Len(nodes) : nodes[k].status = "failed"
    /\ \E k \in 1..Len(nodes) : nodes[k].status = "completed"
    /\ Len(specStatus.nodes) = Len(nodes)
    /\ \A k \in 1..Len(specStatus.nodes) : specStatus.nodes[k] = "pending"
    /\ \A k \in 1..Len(specStatus.edges) : specStatus.edges[k] = "pending"

\* the node whose output the running fan-out node's fanout.over names has no
\* output: it failed, or it has not run yet
SourceMissing ==
    /\ pc = "fanout"
    /\ node.fanout[1].over.t = "path"
    /\ Len(node.fanout[1].over.p) >= 2
    /\ node.fanout[1].over.p[1] = "outputs"
    /\ ~HasOutput(node.fanout[1].over.p[2])

\* C38: a fan-out node whose fanout.over names the output of a failed or
\* not-yet-run node dispatches zero HTTP calls, and its next step completes it
\* with an empty merged output and an ok log entry, adds nothing to errors and
\* does not mark it failed.
C38_FanoutOverNothing ==
    /\ [](SourceMissing => calls = <<>>)
    /\ [][SourceMissing /\ pc' # "fanout" =>
             /\ nodes'[i].status = "completed"
             /\ outputs'.o[node.id] = EmptyObj
             /\ errors' = errors
             /\ runLog' = Append(runLog, [node_id |-> node.id, status |-> "ok",
                                          attempts |-> 1, error |-> <<>>])]_vars

\* n1_overpass failed, and n3_weather, which fans out over its output, completed
\* with an empty output and no error entry of its own
C38_Witness ==
    /\ \E k \in 1..Len(nodes) :
          spec.nodes[k].id = "n1_overpass" /\ nodes[k].status = "failed"
    /\ \E k \in 1..Len(nodes) :
          spec.nodes[k].id = "n3_weather" /\ nodes[k].status = "completed"
    /\ ~HasOutput("n1_overpass")
    /\ HasOutput("n3_weather") /\ outputs.o["n3_weather"] = EmptyObj
    /\ \A e \in 1..Len(errors) : errors[e].node_id = "n1_overpass"

\* C39: provided every HTTP attempt eventually succeeds, fails or times out (and
\* every timer fires), every run terminates: no call makes more than
\* retry.times + 1 attempts, every node of a run that entered the loop ends
\* completed or failed and executePipeline returns, and every request to /run
\* ends with a pipeline_complete event as its last event.
C39_RunTerminates ==
    /\ [](pc \in {"http", "fanout"} =>
            \A j \in 1..Len(calls) :
                /\ calls[j].attempts <= Times(node) + 1
                /\ calls[j].requests <= Times(node) + 1)
    /\ (spec.nodesKind = "array" /\ (entry = "engine" \/ ValidSpec(spec))) =>
           <>[](/\ returned # None
                /\ pc \in {"returned", "responded"}
                /\ Len(nodes) = N
                /\ \A k \in 1..N : nodes[k].status \in Terminal)
    /\ (entry = "run") =>
           <>[](/\ pc = "responded"
                /\ Len(events) > 0
                /\ events[Len(events)].type = "pipeline_complete"
                /\ \A e \in 1..(Len(events) - 1) : events[e].type # "pipeline_complete")

\* a live run whose first node used up its retries and failed has returned, and
\* pipeline_complete was its last event
C39_Witness ==
    /\ entry = "run"
    /\ ~useMocks
    /\ pc = "responded"
    /\ returned # None
    /\ Len(nodes) = 4
    /\ Times(spec.nodes[1]) = 1
    /\ nodes[1].status = "failed"
    /\ \A k \in 1..4 : nodes[k].status \in Terminal
    /\ events[Len(events)].type = "pipeline_complete"
====
